---- MODULE Spec2Model ----
(***************************************************************************)
(* State-machine model of the terahertz acquisition core:                  *)
(*   TcpServer              (src/TcpServer.py)           connection, decoder*)
(*   CoordinatePredictor    (src/CoorDroneWidget.py)     12-state filter    *)
(*   FrameBuffer            (src/FrameBuffer.py)         ring + reference   *)
(*   DataSaver              (src/DataSaver.py)           persistence        *)
(*   PlaybackController     (src/PlaybackController.py)  pose / fps series  *)
(*   TerahertzDetectorUI    (src/TerahertzDetectorUI.py) session controller *)
(*                                                                         *)
(* Each object is one variable holding a record of its fields.  A handler  *)
(* of the source is an operator from the "world" (the record of all        *)
(* objects) to the world after the handler has returned, so that a handler *)
(* that calls another one (auto-stop -> on_record_clicked ->               *)
(* stop_recording) is the composition of the operators.                    *)
(*                                                                         *)
(* Four specifications share the variables and the handlers, and differ   *)
(* in the part of the environment that is left free:                       *)
(*   Spec      the session controller with one connected peer: operator    *)
(*             clicks, every frame and pose message, every persistence     *)
(*             outcome;                                                    *)
(*   TimeSpec  the same controller with the wall clock advancing;          *)
(*   NetSpec   the same controller with peers connecting, disconnecting    *)
(*             and failing, and the START resend timer;                    *)
(*   DecSpec   the byte-level decoder of TcpServer, driven by a peer that  *)
(*             writes packets and a socket that delivers them in chunks.   *)
(* The decoder and the controller meet at the Qt signals dataReceived /    *)
(* coordinateReceived: what DecSpec emits is what the others receive.      *)
(* Labels, icons, pixmaps and the playback display are not modelled.       *)
(*                                                                         *)
(* Reals (numpy float64) are fixed-point integers in units of 1/Scale.     *)
(***************************************************************************)
EXTENDS Integers, Sequences, FiniteSets, TLC

VARIABLES ui, kf, fb, saver, pc, tcp, env, dec

vars == <<ui, kf, fb, saver, pc, tcp, env, dec>>

(***************************************************************************)
(* Bounds of the model                                                     *)
(***************************************************************************)
\* fixed-point resolution: a real r is the integer r * Scale
Scale == 100
\* poses delivered to _handle_coordinate in one run
MaxPoses == 2
\* frames delivered to _handle_frame in one recording
MaxFrames == 3
\* largest configured target frame count (frame_count_spin)
MaxTarget == 2
\* clock ticks in one run, each of TickSeconds seconds
MaxTicks == 1
\* peer connections accepted in one run
MaxConns == 2
\* control commands written to one peer socket
MaxCmds == 3
\* packets the peer writes in one run
MaxPackets == 2
\* floats of one frame: the product of the frame width and height, 64 * 64
\* in src/C.py
FramePixels == 2
\* largest binary exponent of a float64 that is not saturated
FloatMaxExp == 6

(***************************************************************************)
(* Program constants                                                       *)
(***************************************************************************)
COORD_DIMENSION == 12
\* elapsed > 10.0 in _handle_coordinate
FIRST_COORD_TIMEOUT_S == 10
\* DEFAULT_FRAME_COUNT of src/C.py
DEFAULT_FRAME_COUNT == 60
\* QSettings default of processing/initial_fps, and push_fps
INITIAL_FPS == 30
\* self.R = self.R_base * 100.0
STALE_R_FACTOR == 100
\* np.eye(state_dim) * 100.0
P_INIT == 100
\* seconds the clock advances in one Tick
TickSeconds == 11

\* None where a frame is expected
NoFrame == <<>>
NoTime == -1
NoPeer == 0

\* the 8-bit images of the frames the peer sends
Frames == { <<0, 255>>, <<255, 0>> }
Zero(n) == [i \in 1..n |-> 0]
Abs(a) == IF a < 0 THEN -a ELSE a
\* fixed-point product and quotient
Mul(a, b) == (a * b) \div Scale
Div(a, b) == (a * Scale) \div b

\* the measurements x, y, z, roll, pitch, yaw the peer sends
RawPoses == { Zero(6), <<1 * Scale, 2 * Scale, 0, 0, 0, 0>> }
\* declared fps values the peer sends (0: an invalid rate)
FpsValues == {0, 10 * Scale}

(***************************************************************************)
(* CoordinatePredictor (src/CoorDroneWidget.py)                            *)
(*                                                                         *)
(* A, H, Q, R and the initial P are block diagonal per axis: axis i in     *)
(* 1..6 couples state i (pose) with state i+6 (rate) and with nothing      *)
(* else, and every axis has the same dt, Q and R.  P therefore has the     *)
(* same 2x2 block <<P[i,i], P[i,i+6], P[i+6,i], P[i+6,i+6]>> for every     *)
(* axis and zeros elsewhere, S is diagonal, and np.linalg.inv(S) is the    *)
(* reciprocal of its diagonal.  kf.P holds that block; kf.x holds all 12   *)
(* states.  kf.A_dt is the value stored in A[i, i+6].                      *)
(***************************************************************************)
\* self.Q = np.eye(state_dim) * 0.1
KfQ == Scale \div 10
\* self.R_base = np.eye(6) * 1.0
KfRBase == Scale

KfInit(initial_fps) ==
    [ x                |-> Zero(COORD_DIMENSION),
      P                |-> <<P_INIT * Scale, 0, 0, P_INIT * Scale>>,
      A_dt             |-> 0,
      R                |-> KfRBase,
      last_update_time |-> NoTime,
      current_fps      |-> initial_fps,
      default_dt       |-> Div(Scale, initial_fps),
      use_fixed_fps    |-> TRUE ]

\* mutant: a non-positive fps is rejected, the mode argument is still applied
KfSetFpsModeAlways(k, fps, use_fixed) ==
    IF fps <= 0
    THEN [k EXCEPT !.use_fixed_fps = IF use_fixed = "keep" THEN @
                                     ELSE use_fixed = "fixed"]
    ELSE [k EXCEPT !.current_fps = fps,
                   !.default_dt = Div(Scale, fps),
                   !.use_fixed_fps = IF use_fixed = "keep" THEN @
                                     ELSE use_fixed = "fixed"]

\* set_fps(fps, use_fixed): use_fixed is "keep" for None
KfSetFps(k, fps, use_fixed) ==
    IF fps <= 0 THEN k
    ELSE [k EXCEPT !.current_fps = fps,
                   !.default_dt = Div(Scale, fps),
                   !.use_fixed_fps = IF use_fixed = "keep" THEN @
                                     ELSE use_fixed = "fixed"]

\* mutant: reset switches the mode instead of restoring the default mode
KfResetTogglesMode(k) ==
    [k EXCEPT !.x = Zero(COORD_DIMENSION),
              !.P = <<P_INIT * Scale, 0, 0, P_INIT * Scale>>,
              !.last_update_time = NoTime,
              !.R = KfRBase,
              !.use_fixed_fps = ~@]

\* reset(): A, current_fps and default_dt are not assigned
KfReset(k) ==
    [k EXCEPT !.x = Zero(COORD_DIMENSION),
              !.P = <<P_INIT * Scale, 0, 0, P_INIT * Scale>>,
              !.last_update_time = NoTime,
              !.R = KfRBase,
              !.use_fixed_fps = TRUE]

\* mutant: the timestamps are used in both modes whenever an anchor exists
KfDtPrefersTimestamps(k, timestamp) ==
    IF k.last_update_time # NoTime
    THEN (timestamp - k.last_update_time) * Scale
    ELSE k.default_dt

\* the time step update() chooses (seconds, fixed point)
KfDt(k, timestamp) ==
    IF k.use_fixed_fps THEN k.default_dt
    ELSE IF k.last_update_time # NoTime
         THEN (timestamp - k.last_update_time) * Scale
         ELSE k.default_dt

\* the measurement noise update() chooses
KfNoise(is_coord_updated) ==
    IF is_coord_updated THEN KfRBase ELSE KfRBase * STALE_R_FACTOR

\* P_prior = A P A^T + Q, on the block
KfPPrior(P, dt) ==
    LET b == P[2] + Mul(dt, P[4])
        c == P[3] + Mul(dt, P[4])
    IN  << P[1] + Mul(dt, P[3]) + Mul(dt, b) + KfQ, b, c, P[4] + KfQ >>

\* mutant: the rate row of the gain is taken from the rate variance
\* P_prior[i+6, i+6] instead of the covariance P_prior[i+6, i]
KfGainOfRateVariance(Pp, R) == << Div(Pp[1], Pp[1] + R), Div(Pp[4], Pp[1] + R) >>

\* K = P_prior H^T inv(S), S = H P_prior H^T + R: the gain of one axis
KfGain(Pp, R) == << Div(Pp[1], Pp[1] + R), Div(Pp[3], Pp[1] + R) >>

\* mutant: a measurement of the wrong length still moves the timestamp anchor
KfUpdateAnchorsAlways(k, measurement, timestamp, is_coord_updated) ==
    IF Len(measurement) # 6 THEN [k EXCEPT !.last_update_time = timestamp]
    ELSE
      LET dt  == KfDt(k, timestamp)
          R   == KfNoise(is_coord_updated)
          Pp  == KfPPrior(k.P, dt)
          K   == KfGain(Pp, R)
          xp  == [i \in 1..COORD_DIMENSION |->
                     IF i <= 6 THEN k.x[i] + Mul(dt, k.x[i + 6]) ELSE k.x[i]]
          y   == [i \in 1..6 |-> measurement[i] - xp[i]]
      IN  [k EXCEPT
             !.A_dt = dt,
             !.last_update_time = timestamp,
             !.R = R,
             !.x = [i \in 1..COORD_DIMENSION |->
                       IF i <= 6 THEN xp[i] + Mul(K[1], y[i])
                       ELSE xp[i] + Mul(K[2], y[i - 6])],
             !.P = << Pp[1] - Mul(K[1], Pp[1]), Pp[2] - Mul(K[1], Pp[2]),
                      Pp[3] - Mul(K[2], Pp[1]), Pp[4] - Mul(K[2], Pp[2]) >>]

\* mutant: once inflated, the measurement noise stays inflated
KfUpdateStickyNoise(k, measurement, timestamp, is_coord_updated) ==
    IF Len(measurement) # 6 THEN k
    ELSE
      LET dt  == KfDt(k, timestamp)
          R   == IF k.R # KfRBase THEN k.R ELSE KfNoise(is_coord_updated)
          Pp  == KfPPrior(k.P, dt)
          K   == KfGain(Pp, R)
          xp  == [i \in 1..COORD_DIMENSION |->
                     IF i <= 6 THEN k.x[i] + Mul(dt, k.x[i + 6]) ELSE k.x[i]]
          y   == [i \in 1..6 |-> measurement[i] - xp[i]]
      IN  [k EXCEPT
             !.A_dt = dt,
             !.last_update_time = timestamp,
             !.R = R,
             !.x = [i \in 1..COORD_DIMENSION |->
                       IF i <= 6 THEN xp[i] + Mul(K[1], y[i])
                       ELSE xp[i] + Mul(K[2], y[i - 6])],
             !.P = << Pp[1] - Mul(K[1], Pp[1]), Pp[2] - Mul(K[1], Pp[2]),
                      Pp[3] - Mul(K[2], Pp[1]), Pp[4] - Mul(K[2], Pp[2]) >>]

\* update(measurement, timestamp, is_coord_updated)
KfUpdate(k, measurement, timestamp, is_coord_updated) ==
    IF Len(measurement) # 6 THEN k
    ELSE
      LET dt  == KfDt(k, timestamp)
          R   == KfNoise(is_coord_updated)
          Pp  == KfPPrior(k.P, dt)
          K   == KfGain(Pp, R)
          xp  == [i \in 1..COORD_DIMENSION |->
                     IF i <= 6 THEN k.x[i] + Mul(dt, k.x[i + 6]) ELSE k.x[i]]
          y   == [i \in 1..6 |-> measurement[i] - xp[i]]
      IN  [k EXCEPT
             !.A_dt = dt,
             !.last_update_time = timestamp,
             !.R = R,
             !.x = [i \in 1..COORD_DIMENSION |->
                       IF i <= 6 THEN xp[i] + Mul(K[1], y[i])
                       ELSE xp[i] + Mul(K[2], y[i - 6])],
             !.P = << Pp[1] - Mul(K[1], Pp[1]), Pp[2] - Mul(K[1], Pp[2]),
                      Pp[3] - Mul(K[2], Pp[1]), Pp[4] - Mul(K[2], Pp[2]) >>]

\* get_current_state(): a copy of x
KfGetCurrentState(k) == k.x


(***************************************************************************)
(* FrameBuffer (src/FrameBuffer.py)                                        *)
(***************************************************************************)
MAX_RECORDED_FRAMES == 99

FbInit == [buffer |-> <<>>, reference_frame |-> NoFrame]

\* mutant: a ring without a capacity
FbAddFrameUnbounded(b, frame) == [b EXCEPT !.buffer = Append(@, frame)]

\* deque(maxlen=max_size).append
FbAddFrame(b, frame) ==
    [b EXCEPT !.buffer = IF Len(@) >= MAX_RECORDED_FRAMES
                         THEN Append(Tail(@), frame)
                         ELSE Append(@, frame)]

\* np.zeros((FRAME_HEIGHT, FRAME_WIDTH), dtype=np.uint8)
ZeroGrid == [i \in 1..FramePixels |-> 0]

\* the sum of pixel i over a sequence of frames
RECURSIVE PixelSum(_, _)
PixelSum(frames, i) ==
    IF frames = <<>> THEN 0 ELSE frames[1][i] + PixelSum(Tail(frames), i)

\* the min(count, len) most recent frames of the ring
Recent(b, count) ==
    LET n == IF count < Len(b.buffer) THEN count ELSE Len(b.buffer)
    IN  SubSeq(b.buffer, Len(b.buffer) - n + 1, Len(b.buffer))

\* get_accumulated_frame(accumulate_count): np.mean(...) is a float64 array
\* and astype(np.uint8) drops the fraction of each element
FbGetAccumulatedFrame(b, accumulate_count) ==
    IF accumulate_count <= 1 \/ b.buffer = <<>>
    THEN IF b.buffer # <<>> THEN b.buffer[Len(b.buffer)] ELSE ZeroGrid
    ELSE LET recent == Recent(b, accumulate_count)
         IN  [i \in 1..FramePixels |-> PixelSum(recent, i) \div Len(recent)]

FbSetReference(b, frame) == [b EXCEPT !.reference_frame = frame]

FbClear(b) == [b EXCEPT !.buffer = <<>>, !.reference_frame = NoFrame]

(***************************************************************************)
(* DataSaver (src/DataSaver.py).  saver.exists is "self.data_saver is not  *)
(* None" of the window; env.disk lists what the window's DataSaver wrote   *)
(* since start_recording dropped the previous one, each write with its     *)
(* outcome.                                                                *)
(***************************************************************************)
NoSaver == [exists |-> FALSE, current_session_path |-> FALSE]

\* DataSaver(clean_path)
NewSaver == [exists |-> TRUE, current_session_path |-> FALSE]

\* start_session: create_session_folder succeeds (ok) or raises
StartSession(w, ok) ==
    IF ok
    THEN [w EXCEPT !.saver.current_session_path = TRUE,
                   !.env.disk = << <<"folder", 0, TRUE>> >>]
    ELSE [w EXCEPT !.env.disk = << <<"folder", 0, FALSE>> >>]

\* mutant: a failed write closes the session folder
SaveFrameClosesOnFailure(w, frame_num, ok) ==
    IF ~w.saver.current_session_path THEN w
    ELSE [w EXCEPT !.env.disk = Append(@, <<"frame", frame_num, ok>>),
                   !.saver.current_session_path = ok]

\* save_frame: returns without writing when no session folder is open
SaveFrame(w, frame_num, ok) ==
    IF ~w.saver.current_session_path THEN w
    ELSE [w EXCEPT !.env.disk = Append(@, <<"frame", frame_num, ok>>)]

\* np.mean(all_frames, axis=0).astype(np.uint8)
MeanFrame(all_frames) ==
    [i \in 1..Len(all_frames[1]) |-> PixelSum(all_frames, i) \div Len(all_frames)]

\* save_calibration_file(all_frames, base_path): env.calibration_file is
\* the average_data of the file in the base path
SaveCalibrationFile(w, ok) ==
    IF w.ui.recorded_frames = <<>> THEN w
    ELSE [w EXCEPT !.env.disk = Append(@, <<"calibration", Len(w.ui.recorded_frames), ok>>),
                   !.env.calibration_file = IF ok THEN MeanFrame(w.ui.recorded_frames)
                                            ELSE @]

\* end_session: the finally clause closes the session whatever happens
EndSession(w) ==
    LET w1 == IF w.saver.current_session_path
              THEN [w EXCEPT !.env.disk = Append(@, <<"end", 0, TRUE>>)]
              ELSE w
    IN  [w1 EXCEPT !.saver.current_session_path = FALSE]

(***************************************************************************)
(* TerahertzDetectorUI (src/TerahertzDetectorUI.py): the session           *)
(* controller.  ui.log is the set of log lines the running handler wrote.  *)
(***************************************************************************)
AUTO_SWITCH_THRESHOLD_MS == 100
FPS_DIFF_THRESHOLD == 5

Log(w, line) == [w EXCEPT !.ui.log = @ \cup {line}]

\* client_socket.write(cmd) under "if self.tcp_server.client_socket"
WriteCmd(w, cmd) ==
    IF w.tcp.client_socket # NoPeer
    THEN [w EXCEPT !.tcp.peer_out = Append(@, cmd)]
    ELSE w

\* _toggle_kalman_mode(checked): the slot of kalman_mode_btn.toggled
ToggleKalmanMode(w, checked) ==
    Log([w EXCEPT !.kf = KfSetFps(@, w.ui.push_fps,
                                  IF checked THEN "fixed" ELSE "measured")],
        "mode_switched")

\* _toggle_calibration_mode(checked): the slot of
\* calibration_mode_check.toggled
ToggleCalibrationMode(w, checked) ==
    Log([w EXCEPT !.ui.is_calibration_mode = checked], "calibration_mode")

\* _toggle_auto_switch(checked): the slot of auto_switch_check.toggled
ToggleAutoSwitch(w, checked) == Log(w, "auto_switch")

\* _update_real_fps: the slot of fps_timer.timeout
UpdateRealFps(w) ==
    LET elapsed == w.env.now - w.ui.t_start
    IN  [w EXCEPT !.ui.measured_fps = IF elapsed > 0
                                      THEN (w.ui.fps_cnt * Scale) \div elapsed
                                      ELSE 0,
                  !.ui.fps_cnt = 0,
                  !.ui.t_start = w.env.now]

\* _update_connection_quality(delay_ms): the slot of connectionQuality
UpdateConnectionQuality(w, delay_ms) == [w EXCEPT !.ui.current_delay_ms = delay_ms]

\* kalman_mode_btn.setChecked(checked): toggled is emitted on a change only
SetKalmanModeBtn(w, checked) ==
    IF w.ui.kalman_mode_btn = checked THEN w
    ELSE ToggleKalmanMode([w EXCEPT !.ui.kalman_mode_btn = checked], checked)

\* mutant: a new session starts with the estimator reset
StartRecordingResetsEstimator(w, mkdir_ok) ==
    LET w1 == [w EXCEPT !.pc.coords = <<>>, !.pc.fps_values = <<>>]
    IN  IF ~w1.ui.path_edit \/ ~mkdir_ok
        THEN [w1 EXCEPT !.ui.record_btn = FALSE]
        ELSE [w1 EXCEPT
                !.ui.recorded_frames = <<>>,
                !.fb = FbClear(@),
                !.ui.first_frame_data = NoFrame,
                !.saver = NoSaver,
                !.env.disk = <<>>,
                !.kf = KfReset(@),
                !.ui.frame_count = 0,
                !.ui.is_recording = TRUE,
                !.ui.session_started = FALSE,
                !.ui.waiting_for_first_coordinate = TRUE,
                !.ui.recording_start_time = w.env.now]

\* mutant: a start that keeps the frames and the pending first frame
StartRecordingKeepsFrames(w, mkdir_ok) ==
    LET w1 == [w EXCEPT !.pc.coords = <<>>, !.pc.fps_values = <<>>]
    IN  IF ~w1.ui.path_edit \/ ~mkdir_ok
        THEN [w1 EXCEPT !.ui.record_btn = FALSE]
        ELSE [w1 EXCEPT
                !.saver = NoSaver,
                !.env.disk = <<>>,
                !.ui.frame_count = 0,
                !.ui.is_recording = TRUE,
                !.ui.session_started = FALSE,
                !.ui.waiting_for_first_coordinate = TRUE,
                !.ui.recording_start_time = w.env.now]

\* start_recording
StartRecording(w, mkdir_ok) ==
    LET w1 == [w EXCEPT !.pc.coords = <<>>, !.pc.fps_values = <<>>]
    IN  IF ~w1.ui.path_edit \/ ~mkdir_ok
        THEN [w1 EXCEPT !.ui.record_btn = FALSE]
        ELSE [w1 EXCEPT
                !.ui.recorded_frames = <<>>,
                !.fb = FbClear(@),
                !.ui.first_frame_data = NoFrame,
                !.saver = NoSaver,
                !.env.disk = <<>>,
                !.ui.frame_count = 0,
                !.ui.is_recording = TRUE,
                !.ui.session_started = FALSE,
                !.ui.waiting_for_first_coordinate = TRUE,
                !.ui.recording_start_time = w.env.now]

\* mutant: stop_recording that leaves the data saver and its session open
StopRecordingKeepsSaver(w) ==
    IF ~w.ui.is_recording THEN w
    ELSE [w EXCEPT !.ui.is_recording = FALSE, !.ui.record_btn = FALSE]

\* stop_recording
StopRecording(w) ==
    IF ~w.ui.is_recording THEN w
    ELSE
      LET w1 == [w EXCEPT !.ui.is_recording = FALSE, !.ui.record_btn = FALSE]
          w2 == IF w1.ui.is_calibration_mode /\ w1.saver.exists
                   /\ w1.ui.recorded_frames # <<>>
                THEN SaveCalibrationFile(w1, TRUE)
                ELSE w1
          w3 == IF w2.saver.exists
                THEN [EndSession(w2) EXCEPT !.saver = NoSaver]
                ELSE w2
      \* set_session_data(recorded_frames.copy(), coords, fps_values) copies
      \* the three series as they are; the playback display is not modelled
      IN  w3

\* on_record_clicked: the branch is chosen by record_btn.isChecked()
OnRecordClicked(w, mkdir_ok) ==
    IF w.ui.record_btn
    THEN [StartRecording(WriteCmd(w, "START"), mkdir_ok) EXCEPT
            !.ui.fps_cnt = 0,
            !.ui.t_start = w.env.now,
            !.ui.fps_timer = TRUE]
    ELSE StopRecording([WriteCmd(w, "STOP") EXCEPT !.ui.fps_timer = FALSE])

\* _save_current_frame
SaveCurrentFrame(w, save_ok) ==
    IF w.saver.exists /\ w.ui.current_frame # NoFrame
    THEN SaveFrame(w, w.ui.frame_count, save_ok)
    ELSE w

\* _process_cached_first_frame(data)
ProcessCachedFirstFrame(w, data, save_ok) ==
    SaveCurrentFrame(
        [w EXCEPT !.ui.frame_count = 1,
                  !.ui.current_frame = data,
                  !.fb = FbAddFrame(@, data),
                  !.ui.recorded_frames = Append(@, data)],
        save_ok)

\* mutant: the result of start_session is ignored
StartSessionResultIgnored(w, start_ok) == FALSE

\* "if not self.data_saver.start_session(...)" under auto_save_check
StartSessionFailed(w, start_ok) == w.ui.auto_save_check /\ ~start_ok

\* _create_session_with_coordinate(coord): line 896 writes coord into the
\* array current_coordinate refers to, in place
CreateSessionWithCoordinate(w, coord, start_ok, save_ok) ==
    LET w1 == [w EXCEPT !.ui.current_coordinate =
                  [i \in 1..COORD_DIMENSION |-> IF i <= 6 THEN coord[i] ELSE @[i]]]
        w2 == IF w1.ui.auto_save_check
              THEN StartSession([w1 EXCEPT !.saver = NewSaver], start_ok)
              ELSE w1
    IN  IF StartSessionFailed(w1, start_ok)
        THEN StopRecording([Log(w2, "saver_init_failed") EXCEPT !.ui.record_btn = FALSE])
        ELSE
          LET w3 == [w2 EXCEPT !.ui.session_started = TRUE,
                               !.ui.waiting_for_first_coordinate = FALSE]
          IN  IF w3.ui.first_frame_data # NoFrame
              THEN [ProcessCachedFirstFrame(w3, w3.ui.first_frame_data, save_ok)
                      EXCEPT !.ui.first_frame_data = NoFrame]
              ELSE w3

\* mutant: every frame that arrives while waiting replaces the pending one
CacheLatestFrame(w, data) ==
    [w EXCEPT !.ui.first_frame_data = data,
              !.fb = FbSetReference(@, data)]

\* the branch of _handle_frame taken while waiting for the first pose
CacheFirstFrame(w, data) ==
    IF w.ui.first_frame_data = NoFrame
    THEN [w EXCEPT !.ui.first_frame_data = data,
                   !.fb = FbSetReference(@, data)]
    ELSE w

\* mutant: a frame received while idle is added to the FrameBuffer
HandleFrameFeedsIdle(w, data, save_ok) ==
    IF ~w.ui.is_recording THEN [w EXCEPT !.fb = FbAddFrame(@, data)]
    ELSE
      LET w1 == [w EXCEPT !.ui.fps_cnt = @ + 1]
      IN  IF w1.ui.waiting_for_first_coordinate
          THEN CacheFirstFrame(w1, data)
          ELSE
            LET w2 == SaveCurrentFrame(
                        [w1 EXCEPT !.ui.frame_count = @ + 1,
                                   !.ui.current_frame = data,
                                   !.fb = FbAddFrame(@, data),
                                   !.ui.recorded_frames = Append(@, data)],
                        save_ok)
            IN  IF w2.ui.frame_count >= w2.ui.frame_count_spin
                THEN OnRecordClicked([w2 EXCEPT !.ui.record_btn = FALSE], TRUE)
                ELSE w2

\* _handle_frame(data)
HandleFrame(w, data, save_ok) ==
    IF ~w.ui.is_recording THEN w
    ELSE
      LET w1 == [w EXCEPT !.ui.fps_cnt = @ + 1]
      IN  IF w1.ui.waiting_for_first_coordinate
          THEN CacheFirstFrame(w1, data)
          ELSE
            LET w2 == SaveCurrentFrame(
                        [w1 EXCEPT !.ui.frame_count = @ + 1,
                                   !.ui.current_frame = data,
                                   !.fb = FbAddFrame(@, data),
                                   !.ui.recorded_frames = Append(@, data)],
                        save_ok)
            IN  IF w2.ui.frame_count >= w2.ui.frame_count_spin
                THEN OnRecordClicked([w2 EXCEPT !.ui.record_btn = FALSE], TRUE)
                ELSE w2

\* np.any(np.abs(coord[:6] - last_received_coord) > 1e-6)
IsCoordUpdated(coord, last) ==
    \E i \in 1..6 : Abs(coord[i] - last[i]) > Scale \div 1000000

\* mutant: the arbiter compares with >= instead of >
AutoSwitchInclusive(w) ==
    IF w.ui.auto_switch_check /\ w.ui.measured_fps > 0
    THEN IF w.ui.current_delay_ms >= AUTO_SWITCH_THRESHOLD_MS * Scale
            \/ Abs(w.ui.measured_fps - w.ui.push_fps) >= FPS_DIFF_THRESHOLD * Scale
         THEN IF ~w.kf.use_fixed_fps
              THEN Log(SetKalmanModeBtn(w, TRUE), "auto_to_fixed")
              ELSE w
         ELSE IF w.kf.use_fixed_fps
              THEN Log(SetKalmanModeBtn(w, FALSE), "auto_to_measured")
              ELSE w
    ELSE w

\* lines 1069-1088 of _handle_coordinate: the timing mode arbiter
AutoSwitch(w) ==
    IF w.ui.auto_switch_check /\ w.ui.measured_fps > 0
    THEN IF w.ui.current_delay_ms > AUTO_SWITCH_THRESHOLD_MS * Scale
            \/ Abs(w.ui.measured_fps - w.ui.push_fps) > FPS_DIFF_THRESHOLD * Scale
         THEN IF ~w.kf.use_fixed_fps
              THEN Log(SetKalmanModeBtn(w, TRUE), "auto_to_fixed")
              ELSE w
         ELSE IF w.kf.use_fixed_fps
              THEN Log(SetKalmanModeBtn(w, FALSE), "auto_to_measured")
              ELSE w
    ELSE w

\* mutant: a first pose later than the timeout no longer opens the session
OpensSessionBeforeTimeout(w) ==
    /\ w.ui.waiting_for_first_coordinate /\ w.ui.is_recording
    /\ w.env.now - w.ui.recording_start_time <= FIRST_COORD_TIMEOUT_S

\* "if self.waiting_for_first_coordinate and self.is_recording"
OpensSession(w) == w.ui.waiting_for_first_coordinate /\ w.ui.is_recording

\* _handle_coordinate(coord, timestamp, fps, sender_ip)
HandleCoordinate(w, coord, timestamp, fps, start_ok, save_ok) ==
    LET c6  == SubSeq(coord, 1, 6)
        upd == IsCoordUpdated(c6, w.ui.last_received_coord)
        k1  == KfUpdate(KfSetFps(w.kf, fps, "keep"), c6, timestamp, upd)
        \* full_state and current_coordinate are one array from here on
        w1  == [w EXCEPT
                  !.ui.push_fps = fps,
                  !.ui.coord_repeat_count = IF upd THEN 0 ELSE @ + 1,
                  !.ui.last_received_coord = c6,
                  !.kf = k1,
                  !.ui.current_coordinate = KfGetCurrentState(k1)]
        w2  == AutoSwitch(w1)
        w3  == IF OpensSession(w2)
               THEN Log(CreateSessionWithCoordinate(w2, c6, start_ok, save_ok),
                        IF w2.env.now - w2.ui.recording_start_time > FIRST_COORD_TIMEOUT_S
                        THEN "timeout_forced_session"
                        ELSE "first_coordinate_session")
               ELSE w2
        full_state == w3.ui.current_coordinate
    IN  IF w3.ui.is_recording /\ w3.ui.session_started
        THEN [w3 EXCEPT !.pc.coords = Append(@, full_state),
                        !.pc.fps_values = Append(@, fps)]
        ELSE w3


(***************************************************************************)
(* TcpServer (src/TcpServer.py): the connection.  tcp.client_socket is the *)
(* number of the accepted socket (NoPeer for None), tcp.peer_out what has  *)
(* been written to that socket.                                            *)
(***************************************************************************)
\* mutant: the socket is dropped, the bytes read from it stay in the buffer
CleanupKeepsBuffer(t) ==
    [t EXCEPT !.client_socket = NoPeer]

\* seconds without data after which the heartbeat status is standby
HEARTBEAT_TIMEOUT_S == 5

\* _cleanup_client_socket
CleanupClientSocket(t) ==
    [t EXCEPT !.client_socket = NoPeer, !.read_buffer = <<>>]

\* stop_listening
StopListening(t) ==
    [CleanupClientSocket(t) EXCEPT !.listening = FALSE,
                                   !.heartbeat_status = "not_started"]

\* mutant: losing the peer stops the recording
OnConnectionChangedStops(w, connected) ==
    IF ~connected /\ w.ui.is_recording
    THEN StopRecording(Log(w, "disconnected_while_recording"))
    ELSE IF connected /\ w.ui.is_recording /\ ~w.ui.is_manual_disconnect
         THEN [Log(w, "reconnected_while_recording") EXCEPT !.env.resend_timers = @ + 1]
         ELSE w

\* on_connection_changed(connected, heartbeat_status)
OnConnectionChanged(w, connected) ==
    LET w1 == IF ~connected /\ w.ui.is_recording
              THEN Log(w, "disconnected_while_recording")
              ELSE w
    IN  IF connected /\ w1.ui.is_recording /\ ~w1.ui.is_manual_disconnect
        THEN [Log(w1, "reconnected_while_recording") EXCEPT !.env.resend_timers = @ + 1]
        ELSE w1

\* _on_new_connection
OnNewConnection(w) ==
    LET t1 == IF w.tcp.client_socket # NoPeer
              THEN CleanupClientSocket(w.tcp)
              ELSE w.tcp
    IN  OnConnectionChanged(
            Log([w EXCEPT !.tcp = [t1 EXCEPT !.client_socket = w.tcp.accepted + 1,
                                             !.accepted = @ + 1,
                                             !.last_data_time = w.env.now,
                                             !.last_packet_time = w.env.now,
                                             !.peer_out = <<>>]],
                "client_accepted"),
            TRUE)

\* _on_client_disconnected
OnClientDisconnected(w) ==
    OnConnectionChanged(
        [w EXCEPT !.tcp = [CleanupClientSocket(@) EXCEPT !.heartbeat_status = "disconnected"]],
        FALSE)

\* _on_socket_error: connectionError reaches on_connection_error, which
\* writes a log line and repaints the connect button
OnSocketError(w) ==
    IF w.tcp.client_socket # NoPeer
    THEN OnClientDisconnected(Log(w, "socket_error"))
    ELSE w

\* _check_heartbeat, the slot of heartbeat_timer.timeout: connectionChanged
\* reaches on_connection_changed
CheckHeartbeat(w) ==
    LET elapsed == w.env.now - w.tcp.last_data_time
        status  == IF elapsed > HEARTBEAT_TIMEOUT_S THEN "standby" ELSE "normal"
    IN  IF w.tcp.heartbeat_status # status
        THEN OnConnectionChanged([w EXCEPT !.tcp.heartbeat_status = status], TRUE)
        ELSE w

\* mutant: START is resent only to a session that has not opened yet
ResendStartCommandWhileWaiting(w) ==
    IF w.tcp.client_socket # NoPeer /\ w.ui.is_recording /\ ~w.ui.session_started
    THEN Log(WriteCmd(w, "START"), "resent_start")
    ELSE w

\* _resend_start_command, the slot of QTimer.singleShot(500, ...)
ResendStartCommand(w) ==
    IF w.tcp.client_socket # NoPeer /\ w.ui.is_recording
    THEN Log(WriteCmd(w, "START"), "resent_start")
    ELSE w

\* _do_start_listening with a valid address; listen() succeeds or not
DoStartListening(w, ok) ==
    LET t1 == IF w.tcp.listening THEN StopListening(w.tcp) ELSE w.tcp
    IN  [w EXCEPT !.ui.is_manual_disconnect = FALSE,
                  !.ui.connect_btn = IF ok THEN @ ELSE FALSE,
                  !.tcp = [CleanupClientSocket(t1) EXCEPT !.listening = ok]]

\* _do_stop_listening
DoStopListening(w) ==
    [w EXCEPT !.ui.is_manual_disconnect = TRUE, !.tcp = StopListening(@)]

\* on_connect_clicked; an address that does not parse raises before anything
\* is assigned, and the handler unchecks the button
OnConnectClicked(w, addr_ok, ok) ==
    IF w.ui.connect_btn
    THEN IF addr_ok
         THEN DoStartListening(w, ok)
         ELSE [Log(w, "bad_address") EXCEPT !.ui.connect_btn = FALSE]
    ELSE DoStopListening(w)

\* "if self.data_saver:" at the end of on_restore_defaults and of
\* restart_application: an open session is ended, the saver is dropped
DropSaver(w) ==
    IF w.saver.exists
    THEN [(IF w.saver.current_session_path THEN EndSession(w) ELSE w) EXCEPT
             !.saver = NoSaver]
    ELSE w

\* on_restore_defaults (menu "restore defaults"); is_recording and the
\* record button are not assigned
OnRestoreDefaults(w) ==
    LET w1 == [w EXCEPT !.ui.frame_count_spin = DEFAULT_FRAME_COUNT,
                        !.ui.path_edit = TRUE,
                        !.ui.auto_save_check = TRUE]
        w2 == SetKalmanModeBtn(w1, TRUE)
        w3 == IF w2.ui.auto_switch_check
              THEN ToggleAutoSwitch([w2 EXCEPT !.ui.auto_switch_check = FALSE], FALSE)
              ELSE w2
        w4 == [w3 EXCEPT !.ui.fps_timer = FALSE,
                         !.ui.recorded_frames = <<>>,
                         !.fb = FbClear(@),
                         !.ui.current_coordinate = Zero(COORD_DIMENSION),
                         !.ui.last_received_coord = Zero(6),
                         !.ui.coord_repeat_count = 0,
                         !.ui.session_started = FALSE,
                         !.ui.waiting_for_first_coordinate = FALSE,
                         !.ui.first_frame_data = NoFrame,
                         !.ui.is_calibration_mode = FALSE]
        w5 == DropSaver(w4)
    IN  Log([w5 EXCEPT !.kf = KfReset(@), !.ui.current_frame = NoFrame],
            "defaults_restored")

\* restart_application (menu "restart"): the last line arms
\* QTimer.singleShot(500, self._auto_start_listening)
RestartApplication(w) ==
    LET w1 == IF w.ui.is_recording THEN StopRecording(w) ELSE w
        \* playback_controller.clear()
        w2 == [w1 EXCEPT !.pc.coords = <<>>,
                         !.pc.fps_values = <<>>,
                         !.ui.fps_timer = FALSE,
                         !.ui.recorded_frames = <<>>,
                         !.fb = FbClear(@),
                         !.ui.current_frame = NoFrame,
                         !.ui.current_coordinate = Zero(COORD_DIMENSION),
                         !.ui.last_received_coord = Zero(6),
                         !.ui.coord_repeat_count = 0,
                         !.ui.session_started = FALSE,
                         !.ui.waiting_for_first_coordinate = FALSE,
                         !.ui.first_frame_data = NoFrame]
        w3 == DropSaver(w2)
    IN  Log([w3 EXCEPT !.kf = KfReset(@), !.env.auto_start_timers = @ + 1],
            "restarted")

\* _auto_start_listening: checks the connect button and starts listening
AutoStartListening(w, ok) ==
    DoStartListening([Log(w, "auto_start") EXCEPT !.ui.connect_btn = TRUE], ok)

(***************************************************************************)
(* TcpServer (src/TcpServer.py): the decoder.  Bytes are 0..255.  A        *)
(* float64 is its 8 bytes, little endian as numpy reads them; its value is *)
(* taken with the 4 leading bits of the mantissa, in units of 1/Scale, and *)
(* magnitudes beyond 2^FloatMaxExp saturate.                               *)
(***************************************************************************)
HEADER_SIZE == 8
FLOAT_SIZE == 8
MIN_POSE_FLOATS == 7

\* struct.unpack("!I", b): big endian
BE32(b) == ((b[1] * 256 + b[2]) * 256 + b[3]) * 256 + b[4]

\* the value of the float64 with bytes b
Float64(b) ==
    LET e   == (b[8] % 128) * 16 + (b[7] \div 16)
        m   == 16 + (b[7] % 16)
        k   == e - 1023
        mag == IF e = 0 \/ k < -FloatMaxExp THEN 0
               ELSE IF k < 0 THEN (m * Scale) \div (16 * 2^(-k))
               ELSE IF k > FloatMaxExp THEN (m * Scale * 2^FloatMaxExp) \div 16
               ELSE (m * Scale * 2^k) \div 16
    IN  IF b[8] >= 128 THEN -mag ELSE mag

\* np.frombuffer(data, dtype=np.float64): the caller has checked the length
FromBuffer(data) ==
    [i \in 1..(Len(data) \div FLOAT_SIZE) |->
        Float64(SubSeq(data, (i - 1) * FLOAT_SIZE + 1, i * FLOAT_SIZE))]

Min(S) == CHOOSE x \in S : \A y \in S : x <= y
Max(S) == CHOOSE x \in S : \A y \in S : x >= y

\* cvRound(num / den), den > 0, num >= 0: to nearest, halves to even
RoundDiv(num, den) ==
    LET q == num \div den
        r == num % den
    IN  IF 2 * r > den \/ (2 * r = den /\ q % 2 = 1) THEN q + 1 ELSE q

\* cv2.normalize(frame_2d, None, 0, 255, cv2.NORM_MINMAX, dtype=cv2.CV_8U)
Normalize(arr) ==
    LET lo == Min({arr[i] : i \in 1..Len(arr)})
        hi == Max({arr[i] : i \in 1..Len(arr)})
    IN  [i \in 1..Len(arr) |->
            IF hi = lo THEN 0 ELSE RoundDiv((arr[i] - lo) * 255, hi - lo)]

\* the emit of a Qt signal: the message is recorded, then the slot runs
Emitted(w, msg) == [w EXCEPT !.dec.emitted = Append(@, msg)]

\* mutant: a frame of any number of floats is emitted
ProcessFrameDataAnySize(w, data) ==
    IF Len(data) % FLOAT_SIZE # 0 THEN w
    ELSE HandleFrame(Emitted(w, <<"frame", Normalize(FromBuffer(data))>>),
                     Normalize(FromBuffer(data)), TRUE)

\* _process_frame_data(data): frombuffer raises on a length that is not a
\* whole number of floats, and the exception is caught
ProcessFrameData(w, data) ==
    IF Len(data) % FLOAT_SIZE # 0 THEN w
    ELSE LET arr == FromBuffer(data)
         IN  IF Len(arr) # FramePixels THEN w
             ELSE HandleFrame(Emitted(w, <<"frame", Normalize(arr)>>),
                              Normalize(arr), TRUE)

\* coord = np.zeros(COORD_DIMENSION); coord[:n] = arr[:n], n = min(len, 12)
CoordOf(arr) ==
    [i \in 1..COORD_DIMENSION |-> IF i <= Len(arr) THEN arr[i] ELSE 0]

\* _process_coordinate_data(data); the timestamp is the clock when decoded
ProcessCoordinateData(w, data) ==
    IF Len(data) % FLOAT_SIZE # 0 THEN w
    ELSE LET arr == FromBuffer(data)
         IN  IF Len(arr) >= MIN_POSE_FLOATS
             THEN HandleCoordinate(
                      Emitted(w, <<"coordinate", CoordOf(arr), arr[7]>>),
                      CoordOf(arr), w.env.now, arr[7], TRUE, TRUE)
             ELSE w

\* mutant: one packet is decoded in a call
ProcessOnePacket(w) ==
    LET buf == w.tcp.read_buffer
    IN  IF Len(buf) < HEADER_SIZE THEN w
        ELSE
          LET packet_type == BE32(SubSeq(buf, 1, 4))
              packet_size == BE32(SubSeq(buf, 5, 8))
          IN  IF Len(buf) < HEADER_SIZE + packet_size THEN w
              ELSE
                LET packet_data == SubSeq(buf, HEADER_SIZE + 1, HEADER_SIZE + packet_size)
                    w1 == [w EXCEPT !.tcp.read_buffer =
                              SubSeq(buf, HEADER_SIZE + packet_size + 1, Len(buf))]
                IN  IF packet_type = 0 THEN ProcessFrameData(w1, packet_data)
                    ELSE IF packet_type = 1 THEN ProcessCoordinateData(w1, packet_data)
                    ELSE w1

\* _process_data_packets
RECURSIVE ProcessDataPackets(_)
ProcessDataPackets(w) ==
    LET buf == w.tcp.read_buffer
    IN  IF Len(buf) < HEADER_SIZE THEN w
        ELSE
          LET packet_type == BE32(SubSeq(buf, 1, 4))
              packet_size == BE32(SubSeq(buf, 5, 8))
          IN  IF Len(buf) < HEADER_SIZE + packet_size THEN w
              ELSE
                LET packet_data == SubSeq(buf, HEADER_SIZE + 1, HEADER_SIZE + packet_size)
                    w1 == [w EXCEPT !.tcp.read_buffer =
                              SubSeq(buf, HEADER_SIZE + packet_size + 1, Len(buf))]
                IN  ProcessDataPackets(
                        IF packet_type = 0 THEN ProcessFrameData(w1, packet_data)
                        ELSE IF packet_type = 1 THEN ProcessCoordinateData(w1, packet_data)
                        ELSE w1)

\* mutant: the bytes read replace the buffer
Replaced(buffer, data) == data

\* self.read_buffer.extend(data)
Extended(buffer, data) == buffer \o data

\* _on_data_ready_read: readAll() returns the bytes that have arrived;
\* connectionQuality reaches _update_connection_quality
OnDataReadyRead(w, data) ==
    IF w.tcp.client_socket = NoPeer THEN w
    ELSE ProcessDataPackets(
             [w EXCEPT !.tcp.read_buffer = Extended(@, data),
                       !.tcp.last_data_time = w.env.now,
                       !.tcp.last_packet_time = w.env.now,
                       !.ui.current_delay_ms =
                           (w.env.now - w.tcp.last_packet_time) * 1000 * Scale])

(***************************************************************************)
(* State                                                                   *)
(***************************************************************************)
World == [ui |-> ui, kf |-> kf, fb |-> fb, saver |-> saver, pc |-> pc,
          tcp |-> tcp, env |-> env, dec |-> dec]

\* the world when a handler is entered: nothing logged yet
Entered == [World EXCEPT !.ui.log = {}]

Becomes(w) ==
    /\ ui' = w.ui
    /\ kf' = w.kf
    /\ fb' = w.fb
    /\ saver' = w.saver
    /\ pc' = w.pc
    /\ tcp' = w.tcp
    /\ env' = w.env
    /\ dec' = w.dec

UiInit(target, auto_save, path_set) ==
    [ is_recording                 |-> FALSE,
      waiting_for_first_coordinate |-> FALSE,
      session_started              |-> FALSE,
      first_frame_data             |-> NoFrame,
      recorded_frames              |-> <<>>,
      frame_count                  |-> 0,
      current_frame                |-> NoFrame,
      current_coordinate           |-> Zero(COORD_DIMENSION),
      push_fps                     |-> INITIAL_FPS * Scale,
      last_received_coord          |-> Zero(6),
      coord_repeat_count           |-> 0,
      recording_start_time         |-> 0,
      fps_cnt                      |-> 0,
      t_start                      |-> 0,
      fps_timer                    |-> FALSE,
      measured_fps                 |-> 0,
      current_delay_ms             |-> 0,
      record_btn                   |-> FALSE,
      is_manual_disconnect         |-> FALSE,
      connect_btn                  |-> TRUE,
      is_calibration_mode          |-> FALSE,
      frame_count_spin             |-> target,
      auto_save_check              |-> auto_save,
      path_edit                    |-> path_set,
      auto_switch_check            |-> FALSE,
      kalman_mode_btn              |-> TRUE,
      log                          |-> {} ]

PcInit == [coords |-> <<>>, fps_values |-> <<>>]

TcpInit == [client_socket |-> NoPeer, accepted |-> 0, listening |-> TRUE,
            heartbeat_status |-> "normal", read_buffer |-> <<>>,
            last_data_time |-> 0, last_packet_time |-> 0, peer_out |-> <<>>]

\* the environment: the wall clock, the writes of the DataSaver, the pending
\* singleShot timers, and the history of the run: the number of poses
\* delivered, the first frame and the number of frames delivered while
\* recording since the record button was last clicked, the mode the
\* operator has set with the mode button since the last pose was handled,
\* and the measurement of the last direct call of update()
EnvInit == [now |-> 0, n_pose |-> 0, disk |-> <<>>, resend_timers |-> 0,
            first_rx |-> NoFrame, n_rx |-> 0, mode_set |-> "none", measurement |-> <<>>]

\* the byte stream of the connection: what the peer has written and the
\* socket has not delivered, and the history of the connection: the writes
\* of the peer, the bytes delivered, in how many chunks (2: two or more),
\* and the messages emitted; and the history of the run: the number of
\* writes, and whether a connection ended with bytes in the buffer
DecIdle == [wire |-> <<>>, sent |-> 0, packets |-> <<>>, fed |-> <<>>, chunks |-> 0,
            emitted |-> <<>>, cut |-> FALSE]

\* the world when the connection changes: the bytes the old peer has
\* written are never read (its signals are disconnected), and the history
\* of the connection starts again
Reconnected ==
    [Entered EXCEPT !.dec = [DecIdle EXCEPT
                                !.sent = dec.sent,
                                !.cut = dec.cut \/ tcp.read_buffer # <<>>]]

Init ==
    /\ \E target \in 1..MaxTarget, auto_save \in BOOLEAN, path_set \in BOOLEAN :
          ui = UiInit(target, auto_save, path_set)
    /\ kf = KfInit(INITIAL_FPS * Scale)
    /\ fb = FbInit
    /\ saver = NoSaver
    /\ pc = PcInit
    /\ tcp = TcpInit
    /\ env = EnvInit
    /\ dec = DecIdle

(***************************************************************************)
(* Actions: one per handler.  The parameters are the sets the inputs and   *)
(* the outcomes of the environment are drawn from.                         *)
(***************************************************************************)
\* the operator clicks the record button: the click toggles it, then the slot runs
RecordClick(mkdir_outcomes) ==
    /\ Len(tcp.peer_out) < MaxCmds
    /\ \E mkdir_ok \in mkdir_outcomes :
          Becomes(OnRecordClicked([Entered EXCEPT !.ui.record_btn = ~@,
                                                  !.env.first_rx = NoFrame,
                                                  !.env.n_rx = 0],
                                  mkdir_ok))

\* dataReceived: the decoder emitted a frame of the connected peer
FrameReceived(frames, save_outcomes) ==
    /\ tcp.client_socket # NoPeer
    /\ env.n_rx < MaxFrames
    /\ \E data \in frames, save_ok \in save_outcomes :
          Becomes(HandleFrame(
                    [Entered EXCEPT
                        !.env.first_rx = IF ui.is_recording /\ @ = NoFrame
                                         THEN data ELSE @,
                        !.env.n_rx = IF ui.is_recording THEN @ + 1 ELSE @],
                    data, save_ok))

\* coordinateReceived: the decoder emitted the pose of a payload of 7 floats
CoordinateReceived(poses, fpss, start_outcomes, save_outcomes) ==
    /\ tcp.client_socket # NoPeer
    /\ env.n_pose < MaxPoses
    /\ \E pose \in poses, fps \in fpss, start_ok \in start_outcomes, save_ok \in save_outcomes :
          Becomes(HandleCoordinate([Entered EXCEPT !.env.n_pose = @ + 1,
                                                   !.env.mode_set = "none"],
                                   CoordOf(pose \o <<fps>>), env.now, fps,
                                   start_ok, save_ok))

NewConnection ==
    /\ tcp.listening
    /\ tcp.accepted < MaxConns
    /\ Becomes(OnNewConnection(Reconnected))

ClientDisconnected ==
    /\ tcp.client_socket # NoPeer
    /\ Becomes(OnClientDisconnected(Reconnected))

SocketError ==
    /\ tcp.client_socket # NoPeer
    /\ Becomes(OnSocketError(Reconnected))

\* a QTimer.singleShot(500, ...) armed by on_connection_changed expires
ResendTimer ==
    /\ env.resend_timers > 0
    /\ Becomes(ResendStartCommand([Entered EXCEPT !.env.resend_timers = @ - 1]))

\* the operator clicks the connect button: the click toggles it, then the slot runs
ConnectClick ==
    /\ ui.connect_btn \in BOOLEAN
    /\ \E addr_ok \in BOOLEAN, ok \in BOOLEAN :
          Becomes(OnConnectClicked([Entered EXCEPT !.ui.connect_btn = ~@], addr_ok, ok))

\* the operator clicks the mode button: the click toggles it, toggled runs the slot
KalmanModeClick ==
    /\ ui.kalman_mode_btn \in BOOLEAN
    /\ Becomes(SetKalmanModeBtn(
                  [Entered EXCEPT !.env.mode_set = IF ui.kalman_mode_btn
                                                   THEN "measured" ELSE "fixed"],
                  ~ui.kalman_mode_btn))

\* the operator clicks the automatic arbitration switch
AutoSwitchClick ==
    /\ ui.auto_switch_check \in BOOLEAN
    /\ Becomes(ToggleAutoSwitch([Entered EXCEPT !.ui.auto_switch_check = ~@],
                                ~ui.auto_switch_check))

\* fps_timer.timeout while the timer runs
FpsTimer ==
    /\ ui.fps_timer
    /\ Becomes(UpdateRealFps(Entered))

\* a caller of CoordinatePredictor.update with a measurement of any length
EstimatorUpdate(measurements) ==
    /\ env.n_pose < MaxPoses
    /\ \E m \in measurements, is_coord_updated \in BOOLEAN :
          /\ kf' = KfUpdate(kf, m, env.now, is_coord_updated)
          /\ env' = [env EXCEPT !.n_pose = @ + 1, !.measurement = m,
                                !.calls = Append(@, <<Len(m), is_coord_updated>>)]
    /\ UNCHANGED <<ui, fb, saver, pc, tcp, dec>>

Tick ==
    /\ env.now < MaxTicks * TickSeconds
    /\ env' = [env EXCEPT !.now = @ + TickSeconds]
    /\ UNCHANGED <<ui, kf, fb, saver, pc, tcp, dec>>

(***************************************************************************)
(* Spec: the session controller with one connected peer                    *)
(***************************************************************************)
\* the first peer has connected to the idle, listening window
InitConnected ==
    /\ \E target \in 1..MaxTarget, auto_save \in BOOLEAN, path_set \in BOOLEAN :
          ui = UiInit(target, auto_save, path_set)
    /\ kf = KfInit(INITIAL_FPS * Scale)
    /\ fb = FbInit
    /\ saver = NoSaver
    /\ pc = PcInit
    /\ tcp = [TcpInit EXCEPT !.client_socket = 1, !.accepted = 1]
    /\ env = EnvInit
    /\ dec = DecIdle

Next ==
    \/ RecordClick(BOOLEAN)
    \/ FrameReceived(Frames, BOOLEAN)
    \/ CoordinateReceived(RawPoses, FpsValues, BOOLEAN, BOOLEAN)

Spec == InitConnected /\ [][Next]_vars

(***************************************************************************)
(* TimeSpec: the controller and the wall clock                             *)
(***************************************************************************)
TimeNext ==
    \/ RecordClick({TRUE})
    \/ FrameReceived(Frames, {TRUE})
    \/ CoordinateReceived(RawPoses, {10 * Scale}, BOOLEAN, {TRUE})
    \/ Tick

TimeSpec == InitConnected /\ [][TimeNext]_vars

(***************************************************************************)
(* NetSpec: the controller and the connection                              *)
(***************************************************************************)
NetNext ==
    \/ RecordClick({TRUE})
    \/ FrameReceived({<<0, 255>>}, {TRUE})
    \/ CoordinateReceived(RawPoses, {10 * Scale}, {TRUE}, {TRUE})
    \/ NewConnection
    \/ ClientDisconnected
    \/ SocketError
    \/ ResendTimer

NetSpec == Init /\ [][NetNext]_vars

(***************************************************************************)
(* LinkSpec: the record button, the connect button and the connection.     *)
(* The event loop of Qt runs every expired single-shot timer, so the       *)
(* expiry of an armed timer is weakly fair.                                *)
(***************************************************************************)
LinkNext ==
    \/ RecordClick({TRUE})
    \/ CoordinateReceived({Zero(6)}, {10 * Scale}, {TRUE}, {TRUE})
    \/ ConnectClick
    \/ NewConnection
    \/ ClientDisconnected
    \/ ResendTimer

LinkSpec == Init /\ [][LinkNext]_vars /\ WF_vars(ResendTimer)

(***************************************************************************)
(* DecSpec: the decoder and the byte stream of one connection              *)
(***************************************************************************)
\* struct.pack("!I", n), as the peer writes it
U32(n) == << (n \div 16777216) % 256, (n \div 65536) % 256, (n \div 256) % 256, n % 256 >>

Packet(packet_type, payload) == U32(packet_type) \o U32(Len(payload)) \o payload

\* the float64 0.0, 1.0, 2.0 and 10.0
F0 == <<0, 0, 0, 0, 0, 0, 0, 0>>
F1 == <<0, 0, 0, 0, 0, 0, 240, 63>>
F2 == <<0, 0, 0, 0, 0, 0, 0, 64>>
F10 == <<0, 0, 0, 0, 0, 0, 36, 64>>

RECURSIVE Flat(_)
Flat(ss) == IF ss = <<>> THEN <<>> ELSE Head(ss) \o Flat(Tail(ss))

\* what the peer writes at once: a frame, a frame of one float too many, a
\* frame payload that is no whole number of floats, a pose of 7 floats, a
\* pose of 2 floats, a pose payload that is no whole number of floats, a
\* packet of an unknown type, and three stray bytes
Packets ==
    { Packet(0, Flat([i \in 1..FramePixels |-> IF i = 1 THEN F0 ELSE F1])),
      Packet(0, Flat([i \in 1..FramePixels + 1 |-> F2])),
      Packet(0, <<9>>),
      Packet(1, Flat(<<F1, F2, F0, F0, F0, F0, F10>>)),
      Packet(1, Flat(<<F1, F2>>)),
      Packet(1, <<1, 2, 3>>),
      Packet(2, <<7>>),
      <<0, 0, 0>> }

\* the window is idle and listening, the peer has connected
DecInit ==
    /\ ui = UiInit(1, TRUE, TRUE)
    /\ kf = KfInit(INITIAL_FPS * Scale)
    /\ fb = FbInit
    /\ saver = NoSaver
    /\ pc = PcInit
    /\ tcp = [TcpInit EXCEPT !.client_socket = 1, !.accepted = 1]
    /\ env = EnvInit
    /\ dec = DecIdle

PeerSends ==
    /\ tcp.client_socket # NoPeer
    /\ dec.sent < MaxPackets
    /\ \E p \in Packets : dec' = [dec EXCEPT !.wire = @ \o p, !.sent = @ + 1,
                                            !.packets = Append(@, p)]
    /\ UNCHANGED <<ui, kf, fb, saver, pc, tcp, env>>

\* the peer writes one packet when the socket has delivered what it wrote before
PeerWrites(packets) ==
    /\ tcp.client_socket # NoPeer
    /\ dec.sent < MaxPackets
    /\ dec.wire = <<>>
    /\ \E p \in packets : dec' = [dec EXCEPT !.wire = p, !.sent = @ + 1,
                                            !.packets = Append(@, p)]
    /\ UNCHANGED <<ui, kf, fb, saver, pc, tcp, env>>

\* readyRead: some of the bytes on the wire have arrived
ChunkDelivered ==
    /\ tcp.client_socket # NoPeer
    /\ \E n \in 1..Len(dec.wire) :
          Becomes(OnDataReadyRead(
                    [Entered EXCEPT
                        !.dec.wire = SubSeq(@, n + 1, Len(@)),
                        !.dec.fed = @ \o SubSeq(dec.wire, 1, n),
                        !.dec.chunks = IF @ < 2 THEN @ + 1 ELSE @],
                    SubSeq(dec.wire, 1, n)))

\* the message of the last pose a call has handled (<<>>: none)
LastPose(before, after) ==
    LET new == { i \in Len(before) + 1..Len(after) : after[i][1] = "coordinate" }
    IN  IF new = {} THEN <<>> ELSE after[Max(new)]

\* readyRead: all the bytes on the wire have arrived
WireDelivered ==
    /\ tcp.client_socket # NoPeer
    /\ dec.wire # <<>>
    /\ LET w == OnDataReadyRead(
                    [Entered EXCEPT !.dec.wire = <<>>,
                                    !.dec.fed = @ \o dec.wire,
                                    !.dec.chunks = IF @ < 2 THEN @ + 1 ELSE @],
                    dec.wire)
       IN  Becomes([w EXCEPT !.env.mode_set =
                        IF LastPose(dec.emitted, w.dec.emitted) # <<>>
                        THEN "none" ELSE @])

DecNext ==
    \/ PeerSends
    \/ ChunkDelivered

DecSpec == DecInit /\ [][DecNext]_vars

(***************************************************************************)
(* ModeSpec: the mode button, the automatic arbitration, the fps timer,    *)
(* the wall clock and a peer whose packets arrive one at a time            *)
(***************************************************************************)
\* a frame, a pose that declares 10 fps, and a pose that declares 0 fps
ModePackets ==
    { Packet(0, Flat([i \in 1..FramePixels |-> IF i = 1 THEN F0 ELSE F1])),
      Packet(1, Flat(<<F1, F2, F0, F0, F0, F0, F10>>)),
      Packet(1, Flat(<<F2, F1, F0, F0, F0, F0, F0>>)) }

\* the window is idle and listening, the peer has connected, auto-save is off
ModeInit ==
    /\ ui = UiInit(1, FALSE, TRUE)
    /\ kf = KfInit(INITIAL_FPS * Scale)
    /\ fb = FbInit
    /\ saver = NoSaver
    /\ pc = PcInit
    /\ tcp = [TcpInit EXCEPT !.client_socket = 1, !.accepted = 1]
    /\ env = EnvInit
    /\ dec = DecIdle

ModeNext ==
    \/ PeerWrites(ModePackets)
    \/ WireDelivered
    \/ KalmanModeClick
    \/ AutoSwitchClick
    \/ RecordClick({TRUE})
    \/ FpsTimer
    \/ Tick

ModeSpec == ModeInit /\ [][ModeNext]_vars

(***************************************************************************)
(* KfSpec: the estimator called with measurements of any length            *)
(***************************************************************************)
\* measurements of 0, 5, 6 and 7 values
Measurements ==
    RawPoses \cup { <<>>, Zero(5), <<1 * Scale, 2 * Scale, 0, 0, 0, 0, 3 * Scale>> }

KfNext ==
    \/ EstimatorUpdate(Measurements)
    \/ KalmanModeClick
    \/ Tick

\* env holds, besides the fields of EnvInit, the length of the measurement
\* and the is_coord_updated flag of each direct call of update()
KfEnvInit == EnvInit @@ [calls |-> <<>>]

KfSpecInit ==
    /\ ui = UiInit(1, FALSE, TRUE)
    /\ kf = KfInit(INITIAL_FPS * Scale)
    /\ fb = FbInit
    /\ saver = NoSaver
    /\ pc = PcInit
    /\ tcp = [TcpInit EXCEPT !.client_socket = 1, !.accepted = 1]
    /\ env = KfEnvInit
    /\ dec = DecIdle

KfSpec == KfSpecInit /\ [][KfNext]_vars

(***************************************************************************)
(* StreamSpec: the decoder and the byte streams of successive connections, *)
(* each of a peer whose packets arrive one at a time, in chunks             *)
(***************************************************************************)
StreamNext ==
    \/ PeerWrites(Packets)
    \/ ChunkDelivered
    \/ NewConnection
    \/ ClientDisconnected

StreamSpec == DecInit /\ [][StreamNext]_vars

(***************************************************************************)
(* FbSpec: the frame ring filled with 8-bit frames and read with any       *)
(* accumulate count.  env holds, besides the fields of EnvInit, the count  *)
(* and the result of the last get_accumulated_frame call on the ring as it *)
(* is now (NoFrame as the result when the ring has changed since)          *)
(***************************************************************************)
\* frames of the ring in one run
MaxRing == 3
\* 8-bit frames
RingFrames == { <<0, 255>>, <<255, 0>>, <<1, 2>> }
\* accumulate counts: the slider gives 1..144, the function takes any int
Counts == 0..(MaxRing + 1)

FbEnvInit == EnvInit @@ [accumulate_count |-> 0, accumulated |-> NoFrame]

FbSpecInit ==
    /\ ui = UiInit(1, FALSE, TRUE)
    /\ kf = KfInit(INITIAL_FPS * Scale)
    /\ fb = FbInit
    /\ saver = NoSaver
    /\ pc = PcInit
    /\ tcp = TcpInit
    /\ env = FbEnvInit
    /\ dec = DecIdle

\* a caller of add_frame
RingAdd(frames) ==
    /\ Len(fb.buffer) < MaxRing
    /\ \E frame \in frames : fb' = FbAddFrame(fb, frame)
    /\ env' = FbEnvInit
    /\ UNCHANGED <<ui, kf, saver, pc, tcp, dec>>

\* a caller of clear
RingClear ==
    /\ fb.buffer # <<>>
    /\ fb' = FbClear(fb)
    /\ env' = FbEnvInit
    /\ UNCHANGED <<ui, kf, saver, pc, tcp, dec>>

\* a caller of get_accumulated_frame
Accumulate(counts) ==
    /\ \E count \in counts :
          env' = [env EXCEPT !.accumulate_count = count,
                             !.accumulated = FbGetAccumulatedFrame(fb, count)]
    /\ UNCHANGED <<ui, kf, fb, saver, pc, tcp, dec>>

FbNext ==
    \/ RingAdd(RingFrames)
    \/ RingClear
    \/ Accumulate(Counts)

FbSpec == FbSpecInit /\ [][FbNext]_vars

(***************************************************************************)
(* OpSpec: the controller, the first peer, and the operator's menu:        *)
(* restore defaults and restart.  env holds, besides the fields of         *)
(* EnvInit, the pending singleShot timers of _auto_start_listening and,    *)
(* for each reset of the run, the number of poses delivered before it      *)
(***************************************************************************)
\* menu resets (restore defaults or restart) in one run
MaxResets == 2

OpEnvInit == EnvInit @@ [auto_start_timers |-> 0, resets |-> <<>>]

OpInit ==
    /\ \E target \in 1..MaxTarget, auto_save \in BOOLEAN :
          ui = UiInit(target, auto_save, TRUE)
    /\ kf = KfInit(INITIAL_FPS * Scale)
    /\ fb = FbInit
    /\ saver = NoSaver
    /\ pc = PcInit
    /\ tcp = [TcpInit EXCEPT !.client_socket = 1, !.accepted = 1]
    /\ env = OpEnvInit
    /\ dec = DecIdle

\* the operator chooses "restore defaults" in the settings menu
RestoreDefaults ==
    /\ Len(env.resets) < MaxResets
    /\ Becomes(OnRestoreDefaults([Entered EXCEPT
                                    !.env.resets = Append(@, env.n_pose)]))

\* the operator chooses "restart" in the file menu
Restart ==
    /\ Len(env.resets) < MaxResets
    /\ Becomes(RestartApplication([Entered EXCEPT
                                     !.env.resets = Append(@, env.n_pose)]))

\* the QTimer.singleShot(500, ...) armed by restart_application expires
AutoStartTimer ==
    /\ env.auto_start_timers > 0
    /\ \E ok \in BOOLEAN :
          Becomes(AutoStartListening(
                     [Reconnected EXCEPT !.env.auto_start_timers = @ - 1], ok))

OpNext ==
    \/ RecordClick({TRUE})
    \/ FrameReceived({<<0, 255>>}, {TRUE})
    \/ CoordinateReceived(RawPoses, {10 * Scale}, {TRUE}, {TRUE})
    \/ RestoreDefaults
    \/ Restart
    \/ AutoStartTimer

OpSpec == OpInit /\ [][OpNext]_vars

(***************************************************************************)
(* ArbiterSpec: the mode arbiter at its thresholds.  The window has        *)
(* measured an fps before the run; the connection reports delays at,       *)
(* below and above 100 ms, and the poses declare 10 fps                    *)
(***************************************************************************)
\* delays of the connectionQuality signal, in ms: 10, 100, just above 100, 150
Delays == { 10 * Scale, AUTO_SWITCH_THRESHOLD_MS * Scale,
            AUTO_SWITCH_THRESHOLD_MS * Scale + 1, 150 * Scale }
\* values of _measured_fps: none, and differences of 5, 1, 5 and just above 5
\* from the declared 10 fps
MeasuredRates == { 0, 5 * Scale, 11 * Scale, 15 * Scale, 15 * Scale + 1 }

ArbiterInit ==
    /\ \E rate \in MeasuredRates :
          ui = [UiInit(1, FALSE, TRUE) EXCEPT !.measured_fps = rate]
    /\ kf = KfInit(INITIAL_FPS * Scale)
    /\ fb = FbInit
    /\ saver = NoSaver
    /\ pc = PcInit
    /\ tcp = [TcpInit EXCEPT !.client_socket = 1, !.accepted = 1]
    /\ env = EnvInit
    /\ dec = DecIdle

\* connectionQuality: the connection reports the delay of the last packet
QualityReported(delays) ==
    /\ tcp.client_socket # NoPeer
    /\ \E delay_ms \in delays : Becomes(UpdateConnectionQuality(Entered, delay_ms))

ArbiterNext ==
    \/ QualityReported(Delays)
    \/ CoordinateReceived(RawPoses, {10 * Scale}, {TRUE}, {TRUE})
    \/ KalmanModeClick
    \/ AutoSwitchClick

ArbiterSpec == ArbiterInit /\ [][ArbiterNext]_vars

(***************************************************************************)
(* TimeBaseSpec: the time step of the estimator.  Poses that declare 10    *)
(* or 30 fps, the mode button, the wall clock and the menu reset, with the *)
(* window idle                                                             *)
(***************************************************************************)
TimeBaseInit ==
    /\ ui = UiInit(1, FALSE, TRUE)
    /\ kf = KfInit(INITIAL_FPS * Scale)
    /\ fb = FbInit
    /\ saver = NoSaver
    /\ pc = PcInit
    /\ tcp = [TcpInit EXCEPT !.client_socket = 1, !.accepted = 1]
    /\ env = OpEnvInit
    /\ dec = DecIdle

TimeBaseNext ==
    \/ CoordinateReceived(RawPoses, {10 * Scale, INITIAL_FPS * Scale}, {TRUE}, {TRUE})
    \/ KalmanModeClick
    \/ Tick
    \/ RestoreDefaults

TimeBaseSpec == TimeBaseInit /\ [][TimeBaseNext]_vars

(***************************************************************************)
(* BeatSpec: the recording controller, the connection and its heartbeat    *)
(* timer.  env holds, besides the fields of EnvInit, for each pending      *)
(* singleShot timer of _resend_start_command the signal that armed it      *)
(* (armed_by, oldest first), and the signal that armed the timer that      *)
(* fired last (fired)                                                      *)
(***************************************************************************)
BeatEnvInit == EnvInit @@ [armed_by |-> <<>>, fired |-> "none"]

BeatInit ==
    /\ ui = UiInit(1, FALSE, TRUE)
    /\ kf = KfInit(INITIAL_FPS * Scale)
    /\ fb = FbInit
    /\ saver = NoSaver
    /\ pc = PcInit
    /\ tcp = [TcpInit EXCEPT !.client_socket = 1, !.accepted = 1]
    /\ env = BeatEnvInit
    /\ dec = DecIdle

\* the world after a handler that may have armed a timer on the signal
Armed(w, signal) ==
    [w EXCEPT !.env.armed_by = IF w.env.resend_timers > env.resend_timers
                               THEN Append(@, signal) ELSE @]

\* newConnection of the listening server
PeerAccepted ==
    /\ tcp.listening
    /\ tcp.accepted < MaxConns
    /\ Becomes(Armed(OnNewConnection(Reconnected), "accepted"))

\* heartbeat_timer.timeout: the timer runs while a peer is connected
HeartbeatTimer ==
    /\ tcp.client_socket # NoPeer
    /\ Becomes(Armed(CheckHeartbeat(Entered), "heartbeat"))

\* the oldest QTimer.singleShot(500, ...) of on_connection_changed expires
ResendFired ==
    /\ env.resend_timers > 0
    /\ Becomes(ResendStartCommand([Entered EXCEPT !.env.resend_timers = @ - 1,
                                                  !.env.armed_by = Tail(@),
                                                  !.env.fired = Head(env.armed_by)]))

BeatNext ==
    \/ RecordClick({TRUE})
    \/ PeerWrites({Packet(0, Flat([i \in 1..FramePixels |-> F0]))})
    \/ WireDelivered
    \/ PeerAccepted
    \/ HeartbeatTimer
    \/ ResendFired
    \/ Tick

BeatSpec == BeatInit /\ [][BeatNext]_vars

(***************************************************************************)
(* RingSpec: the FrameBuffer of the window (capacity MAX_RECORDED_FRAMES)  *)
(* driven past its capacity.  env holds, besides the fields of EnvInit,    *)
(* the last call (op) with its frame, and the number of add_frame calls;   *)
(* the n-th frame added is NthFrame(n), so that all frames of a run differ *)
(***************************************************************************)
\* add_frame calls in one run
MaxAdds == 101

NthFrame(n) == [i \in 1..FramePixels |-> (n * i) % 256]

RingEnvInit == EnvInit @@ [op |-> "none", frame |-> NoFrame, n_add |-> 0]

RingInit ==
    /\ ui = UiInit(1, FALSE, TRUE)
    /\ kf = KfInit(INITIAL_FPS * Scale)
    /\ fb = FbInit
    /\ saver = NoSaver
    /\ pc = PcInit
    /\ tcp = TcpInit
    /\ env = RingEnvInit
    /\ dec = DecIdle

\* a caller of add_frame
AddFrame ==
    /\ env.n_add < MaxAdds
    /\ fb' = FbAddFrame(fb, NthFrame(env.n_add + 1))
    /\ env' = [env EXCEPT !.op = "add_frame", !.frame = NthFrame(env.n_add + 1),
                          !.n_add = @ + 1]
    /\ UNCHANGED <<ui, kf, saver, pc, tcp, dec>>

\* a caller of set_reference
SetReference(frames) ==
    /\ \E frame \in frames :
          /\ fb' = FbSetReference(fb, frame)
          /\ env' = [env EXCEPT !.op = "set_reference", !.frame = frame]
    /\ UNCHANGED <<ui, kf, saver, pc, tcp, dec>>

\* a caller of clear
Clear ==
    /\ fb' = FbClear(fb)
    /\ env' = [env EXCEPT !.op = "clear", !.frame = NoFrame]
    /\ UNCHANGED <<ui, kf, saver, pc, tcp, dec>>

RingNext ==
    \/ AddFrame
    \/ SetReference(Frames)
    \/ Clear

RingSpec == RingInit /\ [][RingNext]_vars

(***************************************************************************)
(* CalSpec: the controller and the first peer, with the calibration mode   *)
(* of the settings dialog (loaded from the settings at start-up, toggled   *)
(* by the operator).  env holds, besides the fields of EnvInit, the        *)
(* average_data of the calibration file in the base path                   *)
(***************************************************************************)
CalEnvInit == EnvInit @@ [calibration_file |-> NoFrame]

CalInit ==
    /\ \E target \in 1..MaxTarget, auto_save \in BOOLEAN, checked \in BOOLEAN :
          ui = [UiInit(target, auto_save, TRUE) EXCEPT !.is_calibration_mode = checked]
    /\ kf = KfInit(INITIAL_FPS * Scale)
    /\ fb = FbInit
    /\ saver = NoSaver
    /\ pc = PcInit
    /\ tcp = [TcpInit EXCEPT !.client_socket = 1, !.accepted = 1]
    /\ env = CalEnvInit
    /\ dec = DecIdle

\* the operator clicks the calibration mode check box of the dialog
CalibrationModeClick ==
    /\ ui.is_calibration_mode \in BOOLEAN
    /\ Becomes(ToggleCalibrationMode(Entered, ~ui.is_calibration_mode))

CalNext ==
    \/ RecordClick({TRUE})
    \/ FrameReceived(Frames, {TRUE})
    \/ CoordinateReceived({Zero(6)}, {10 * Scale}, BOOLEAN, {TRUE})
    \/ CalibrationModeClick

CalSpec == CalInit /\ [][CalNext]_vars

(***************************************************************************)
(* The states of the session controller                                    *)
(***************************************************************************)
Idle == ~ui.is_recording
AwaitingFirstPose == ui.is_recording /\ ui.waiting_for_first_coordinate
Active == ui.is_recording /\ ~ui.waiting_for_first_coordinate

\* the step delivers a pose to _handle_coordinate
PoseStep == env'.n_pose = env.n_pose + 1
\* the step appends a frame to the session's frame series
FrameAppended == Len(ui'.recorded_frames) = Len(ui.recorded_frames) + 1
\* the step appends a pose to the session's pose series
PoseAppended == Len(pc'.coords) = Len(pc.coords) + 1

(***************************************************************************)
(* Properties                                                              *)
(***************************************************************************)
\* C1: between handlers the frame series, the pose series and the
\* declared-fps series of the session have the same length.
C1_SeriesEqualLength ==
    /\ Len(ui.recorded_frames) = Len(pc.coords)
    /\ Len(pc.coords) = Len(pc.fps_values)

\* a session that was stopped with more frames than poses
C1_StoppedUnequal ==
    /\ Idle
    /\ ui.session_started
    /\ Len(ui.recorded_frames) > Len(pc.coords)
    /\ Len(pc.coords) = Len(pc.fps_values)

\* C3: every entry appended to the pose series, pose 0 included, is the
\* 12-state of the estimator right after the update for that pose.
C3_PoseIsEstimatorState ==
    [][PoseAppended => pc'.coords[Len(pc'.coords)] = kf'.x]_vars

\* pose 0 holds the raw measurement where the estimator state differs from it
C3_RawPoseZero ==
    /\ Len(pc.coords) = 1
    /\ SubSeq(pc.coords[1], 1, 6) = ui.last_received_coord
    /\ SubSeq(kf.x, 1, 6) # ui.last_received_coord
    /\ SubSeq(pc.coords[1], 7, 12) = SubSeq(kf.x, 7, 12)

\* C4: while the first pose is awaited nothing is queued and the pending
\* first frame is the first frame delivered since start(); the first pose
\* makes it frame 0 of a session of exactly one frame.
C4_PendingFirstFrame ==
    [][ /\ AwaitingFirstPose' =>
             /\ ui'.recorded_frames = <<>>
             /\ ui'.first_frame_data = env'.first_rx
        /\ AwaitingFirstPose /\ Active' /\ ui.first_frame_data # NoFrame =>
             /\ ui'.recorded_frames = <<ui.first_frame_data>>
             /\ ui'.first_frame_data = NoFrame ]_vars

\* two frames arrived before the first pose and the session holds the first
C4_SecondFrameDropped ==
    /\ Active
    /\ env.n_rx = 2
    /\ ui.frame_count = 1
    /\ ui.recorded_frames = <<env.first_rx>>

\* C5: the session stops as soon as it holds N frames, N the configured
\* target, so that no session holds more than N frames.
C5_AutoStopAtTarget ==
    /\ Len(ui.recorded_frames) <= ui.frame_count_spin
    /\ Active => Len(ui.recorded_frames) < ui.frame_count_spin

\* a stopped session that holds more frames than the target
C5_SessionExceedsTarget ==
    /\ Idle
    /\ Len(ui.recorded_frames) > ui.frame_count_spin
    /\ ui.recorded_frames[1] = env.first_rx

\* start_session created the session folder
FolderCreated == env.disk # <<>> /\ env.disk[1] = <<"folder", 0, TRUE>>
\* start_session failed to create the session folder
FolderFailed == env.disk # <<>> /\ env.disk[1] = <<"folder", 0, FALSE>>
\* more than the timeout has elapsed since start_recording
TimedOut == env.now - ui.recording_start_time > FIRST_COORD_TIMEOUT_S

\* C6: a pose received while the first pose is awaited, with auto-save off
\* or the session folder created, opens the session whatever time has
\* elapsed since start(); the elapsed time selects the log line only.
C6_FirstPoseOpensSession ==
    [][ AwaitingFirstPose /\ PoseStep /\ (~ui.auto_save_check \/ FolderCreated') =>
          /\ Active'
          /\ ui'.session_started
          /\ Len(pc'.coords) = 1
          /\ ("timeout_forced_session" \in ui'.log) = TimedOut
          /\ ("first_coordinate_session" \in ui'.log) = ~TimedOut ]_vars

\* a session opened by a pose that came after the timeout
C6_OpenedAfterTimeout ==
    /\ Active
    /\ "timeout_forced_session" \in ui.log
    /\ Len(pc.coords) = 1

\* C7: stop_recording called while recording ends not recording, with the
\* persistence session closed and no data saver; called while idle it
\* changes nothing.
C7_StopEndsIdle ==
    LET w == StopRecording(World)
    IN  IF ui.is_recording
        THEN /\ ~w.ui.is_recording
             /\ w.saver = NoSaver
             /\ saver.current_session_path =>
                  w.env.disk[Len(w.env.disk)] = <<"end", 0, TRUE>>
        ELSE w = World

\* a session with an open folder was stopped by the operator
C7_StoppedSession ==
    /\ Idle
    /\ saver = NoSaver
    /\ FolderCreated
    /\ env.disk[Len(env.disk)] = <<"end", 0, TRUE>>
    /\ tcp.peer_out # <<>>
    /\ tcp.peer_out[Len(tcp.peer_out)] = "STOP"

\* C8: when the session folder cannot be created at the first pose the
\* controller is idle afterwards, the three series are empty and the
\* pending first frame is attached to nothing.
C8_InitFailureAborts ==
    [][ AwaitingFirstPose /\ PoseStep /\ FolderFailed' =>
          /\ Idle'
          /\ ui'.recorded_frames = <<>>
          /\ pc'.coords = <<>>
          /\ pc'.fps_values = <<>>
          /\ fb'.buffer = <<>>
          /\ ui'.frame_count = 0
          /\ saver' = NoSaver ]_vars

\* the folder could not be created while a first frame was pending
C8_FailedWithPendingFrame ==
    /\ Idle
    /\ "saver_init_failed" \in ui.log
    /\ ui.first_frame_data # NoFrame
    /\ ui.recorded_frames = <<>>

\* the step wrote a frame of the session, with the given outcome
FrameWritten(ok) ==
    /\ Len(env'.disk) > Len(env.disk)
    /\ env'.disk[Len(env.disk) + 1] = <<"frame", Len(ui'.recorded_frames), ok>>

\* C9 as stated: a failed write of a frame leaves the controller active
\* and the frame in the series.
C9_FailureLeavesActive ==
    [][ Active /\ FrameWritten(FALSE) => Active' /\ FrameAppended ]_vars

\* C9: a failed write of a frame keeps the frame in the series and the
\* persistence session open, and stops the session only when the frame is
\* the one that reaches the target; every frame appended while persistence
\* is open is written, whatever became of the writes before it.
C9_FailureDoesNotAbort ==
    [][ /\ Active /\ FrameWritten(FALSE) =>
             /\ FrameAppended
             /\ ui'.recorded_frames[Len(ui'.recorded_frames)] = ui'.current_frame
             /\ Active' = (ui'.frame_count < ui.frame_count_spin)
             /\ Active' => saver' = saver
        /\ Active /\ saver.current_session_path /\ FrameAppended =>
             \E ok \in BOOLEAN : FrameWritten(ok) ]_vars

\* a frame was written after the write of the frame before it had failed
C9_WrittenAfterFailure ==
    \E i \in 1..Len(env.disk) - 1 :
        /\ env.disk[i][1] = "frame" /\ ~env.disk[i][3]
        /\ env.disk[i + 1][1] = "frame"
        /\ env.disk[i + 1][2] = env.disk[i][2] + 1

\* the fields of the controller that make its state and its session
Session == << ui.is_recording, ui.waiting_for_first_coordinate,
              ui.session_started, ui.first_frame_data, ui.recorded_frames,
              ui.frame_count, ui.record_btn, fb, saver, pc, env.disk >>

\* C10: losing the peer, by disconnect or by socket error, while recording
\* changes neither the state of the controller nor the session.
C10_DisconnectKeepsSession ==
    [][ ui.is_recording /\ tcp.client_socket # NoPeer /\ tcp'.client_socket = NoPeer =>
          Session' = Session ]_vars

\* the session goes on with a second peer after the first was lost
C10_ContinuedAfterReconnect ==
    /\ Active
    /\ tcp.accepted = 2
    /\ tcp.client_socket = 2
    /\ Len(ui.recorded_frames) = 1
    /\ Len(pc.coords) = 2
    /\ tcp.peer_out = <<"START">>

\* the world of DecInit
DecWorld0 ==
    [ui |-> UiInit(1, TRUE, TRUE), kf |-> KfInit(INITIAL_FPS * Scale), fb |-> FbInit,
     saver |-> NoSaver, pc |-> PcInit,
     tcp |-> [TcpInit EXCEPT !.client_socket = 1, !.accepted = 1],
     env |-> EnvInit, dec |-> DecIdle]

\* the decoder after all the bytes delivered so far have arrived as one chunk
OneShot == OnDataReadyRead(DecWorld0, dec.fed)

\* C2: the messages emitted for a byte stream delivered in chunks are the
\* messages emitted for the same stream delivered as one chunk, and the
\* same bytes are left undecoded.  (The timestamp of a pose message is the
\* clock at the time of decoding, not a part of the stream.)
C2_ChunkedEqualsOneShot ==
    dec.chunks >= 1 =>
        /\ dec.emitted = OneShot.dec.emitted
        /\ tcp.read_buffer = OneShot.tcp.read_buffer

\* a pose was decoded from two or more chunks, and the last of them ends
\* inside the payload of the packet that follows
C2_SplitStreamDecoded ==
    /\ dec.chunks = 2
    /\ Len(dec.emitted) = 1
    /\ dec.emitted[1][1] = "coordinate"
    /\ Len(tcp.read_buffer) > HEADER_SIZE
    /\ dec.wire # <<>>

\* the step of an accepted connection
Accepted == tcp'.accepted = tcp.accepted + 1

\* the step of an expiring resend timer
Expired == env'.resend_timers = env.resend_timers - 1

\* C11: a connection accepted while recording arms a resend timer; every
\* armed timer expires; an expiry that finds the session recording and a
\* peer connected writes START to that peer
C11_StartResent ==
    /\ [][Accepted /\ ui.is_recording => env'.resend_timers = env.resend_timers + 1]_vars
    /\ \A n \in 1..MaxConns : (env.resend_timers = n) ~> (env.resend_timers < n)
    /\ [][Expired /\ ui.is_recording /\ tcp.client_socket # NoPeer
             => tcp'.peer_out = Append(tcp.peer_out, "START")]_vars

\* START was resent to the second peer, accepted while the session was open
C11_ResentToNewPeer ==
    /\ "resent_start" \in ui.log
    /\ tcp.client_socket = 2
    /\ tcp.peer_out = <<"START">>
    /\ ui.session_started

\* C12: the buffer is empty while no peer is connected and when a
\* connection has just been accepted, and the messages emitted since the
\* connection was accepted are the messages of the bytes of that connection
\* alone
C12_BufferClearedBetweenPeers ==
    /\ tcp.client_socket = NoPeer => tcp.read_buffer = <<>>
    /\ "client_accepted" \in ui.log => tcp.read_buffer = <<>>
    /\ dec.emitted = OneShot.dec.emitted
    /\ tcp.client_socket # NoPeer => tcp.read_buffer = OneShot.tcp.read_buffer

\* the first connection ended with bytes in the buffer, and a message of
\* the second peer was decoded
C12_DecodedAfterCut ==
    /\ dec.cut
    /\ tcp.client_socket = 2
    /\ Len(dec.emitted) = 1

\* a write of the peer that is one complete packet
IsPacket(p) == Len(p) >= HEADER_SIZE /\ Len(p) = HEADER_SIZE + BE32(SubSeq(p, 5, 8))

\* a complete packet that is not malformed: a frame of FramePixels floats
\* or a pose of 7 floats or more
WellFormed(p) ==
    LET packet_type == BE32(SubSeq(p, 1, 4))
        size == Len(p) - HEADER_SIZE
    IN  /\ size % FLOAT_SIZE = 0
        /\ \/ packet_type = 0 /\ size = FramePixels * FLOAT_SIZE
           \/ packet_type = 1 /\ size >= MIN_POSE_FLOATS * FLOAT_SIZE

\* C13: when the peer has written complete packets only and all their
\* bytes have arrived, nothing is left in the buffer and the messages
\* emitted are the messages of the stream without its malformed packets
C13_MalformedPacketSkipped ==
    (dec.wire = <<>> /\ \A i \in 1..Len(dec.packets) : IsPacket(dec.packets[i])) =>
        /\ tcp.read_buffer = <<>>
        /\ dec.emitted =
              OnDataReadyRead(DecWorld0, Flat(SelectSeq(dec.packets, WellFormed))).dec.emitted

\* a malformed packet, then a pose: the pose was decoded
C13_DecodedAfterMalformed ==
    /\ Len(dec.packets) = 2
    /\ IsPacket(dec.packets[1]) /\ ~WellFormed(dec.packets[1])
    /\ IsPacket(dec.packets[2]) /\ WellFormed(dec.packets[2])
    /\ dec.wire = <<>>
    /\ Len(dec.emitted) = 1
    /\ dec.emitted[1][1] = "coordinate"

\* the buffer starts with a complete packet
Complete(buf) ==
    Len(buf) >= HEADER_SIZE /\ Len(buf) >= HEADER_SIZE + BE32(SubSeq(buf, 5, 8))

\* the buffer of a call: the buffer before it and the bytes it reads
CallBuffer == tcp.read_buffer \o SubSeq(dec'.fed, Len(dec.fed) + 1, Len(dec'.fed))

\* C14: after every call the buffer starts with no complete packet; a call
\* whose buffer starts with no complete packet emits nothing and keeps all
\* the bytes; a call whose bytes complete a well-formed packet emits it
C14_IncompleteKept ==
    /\ [](~Complete(tcp.read_buffer))
    /\ [][dec'.fed # dec.fed /\ ~Complete(CallBuffer)
            => dec'.emitted = dec.emitted /\ tcp'.read_buffer = CallBuffer]_vars
    /\ [][dec'.fed # dec.fed /\ Complete(CallBuffer)
            /\ WellFormed(SubSeq(CallBuffer, 1,
                                 HEADER_SIZE + BE32(SubSeq(CallBuffer, 5, 8))))
            => Len(dec'.emitted) > Len(dec.emitted)]_vars

\* a frame was decoded, and the buffer holds the header and a part of the
\* payload of the packet that follows
C14_PartialPacketBuffered ==
    /\ Len(dec.emitted) = 1
    /\ dec.emitted[1][1] = "frame"
    /\ Len(tcp.read_buffer) > HEADER_SIZE
    /\ ~Complete(tcp.read_buffer)
    /\ dec.chunks = 2

\* the pose message of a payload of the floats v, as C15 states it: the pose
\* is v[1..6], the declared fps is v[7], the rates are v[8..13] where present
PoseMessage(v) ==
    <<"coordinate",
      [i \in 1..COORD_DIMENSION |->
          IF i <= 6 THEN v[i] ELSE IF i + 1 <= Len(v) THEN v[i + 1] ELSE 0],
      v[7]>>

\* the payloads of the well-formed pose packets the peer has written
PosePayloads ==
    { FromBuffer(SubSeq(dec.packets[i], HEADER_SIZE + 1, Len(dec.packets[i]))) :
        i \in { j \in 1..Len(dec.packets) :
                  /\ IsPacket(dec.packets[j]) /\ WellFormed(dec.packets[j])
                  /\ BE32(SubSeq(dec.packets[j], 1, 4)) = 1 } }

\* C15: every pose message emitted is the pose message of the payload of a
\* pose packet: six pose fields, the declared fps, and six rates that are
\* zero where the payload ends
C15_PoseFieldsDecoded ==
    \A i \in 1..Len(dec.emitted) :
        dec.emitted[i][1] = "coordinate" =>
            \E v \in PosePayloads : dec.emitted[i] = PoseMessage(v)

\* the pose message of a payload of 7 floats carries the declared fps in
\* its first rate field
C15_FpsInRateField ==
    /\ dec.packets = << Packet(1, Flat(<<F1, F2, F0, F0, F0, F0, F10>>)) >>
    /\ Len(dec.emitted) = 1
    /\ dec.emitted[1][2][7] = 10 * Scale
    /\ dec.emitted[1][3] = 10 * Scale

\* a step that delivers a frame while no session records: no pose, no
\* click of the record button, no tick of the clock
IdleFrameStep ==
    /\ Idle
    /\ env'.n_pose = env.n_pose
    /\ ui'.record_btn = ui.record_btn
    /\ env'.now = env.now

\* C16: a frame received while idle changes neither the frame series, the
\* frame counter, the pending first frame nor the FrameBuffer; a pose
\* received while idle changes neither the pose series nor the fps
\* series, and the estimator is updated with it
C16_IdleInputsDiscarded ==
    /\ [][IdleFrameStep =>
             /\ ui'.recorded_frames = ui.recorded_frames
             /\ ui'.frame_count = ui.frame_count
             /\ ui'.first_frame_data = ui.first_frame_data
             /\ fb' = fb]_vars
    /\ [][Idle /\ PoseStep =>
             /\ pc' = pc
             /\ kf' = KfUpdate(KfSetFps(kf, ui'.push_fps, "keep"),
                               ui'.last_received_coord, env.now,
                               IsCoordUpdated(ui'.last_received_coord,
                                              ui.last_received_coord))]_vars

\* two poses were handled before the record button was ever clicked: the
\* estimator has moved, the series are empty
C16_EstimatorRanWhileIdle ==
    /\ Idle /\ saver = NoSaver /\ ui.recording_start_time = 0 /\ ~ui.session_started
    /\ env.n_pose = 2
    /\ kf.last_update_time # NoTime
    /\ kf.x # Zero(COORD_DIMENSION)
    /\ pc = PcInit /\ ui.recorded_frames = <<>>

\* C17: a step that delivers no pose (a click of the record button that
\* starts or stops, a frame, an auto-stop, a tick of the clock) leaves the
\* estimator unchanged,
\* and a step that delivers a pose leaves it as update() returns it,
\* whether or not the pose opens the session
C17_EstimatorSurvivesSessions ==
    /\ [][~PoseStep => kf' = kf]_vars
    /\ [][PoseStep =>
             kf' = KfUpdate(KfSetFps(kf, ui'.push_fps, "keep"),
                            ui'.last_received_coord, env.now,
                            IsCoordUpdated(ui'.last_received_coord,
                                           ui.last_received_coord))]_vars

\* a session was opened by a pose and stopped, and the next session has
\* started: the estimator still holds the state of that pose
C17_SecondSessionStarted ==
    /\ AwaitingFirstPose
    /\ tcp.peer_out = <<"START", "STOP", "START">>
    /\ env.n_pose = 1
    /\ kf.last_update_time # NoTime
    /\ kf.x # Zero(COORD_DIMENSION)

\* the step handles one pose: a pose message is the last message emitted
ModePoseStep ==
    /\ Len(dec'.emitted) = Len(dec.emitted) + 1
    /\ dec'.emitted[Len(dec'.emitted)][1] = "coordinate"

\* C18: when the operator has set the mode button since the last pose, the
\* update of the next pose takes the time step of the mode that was set
C18_NextUpdateUsesModeSet ==
    [][ModePoseStep /\ env.mode_set # "none" =>
          kf'.A_dt = KfDt([KfSetFps(kf, ui'.push_fps, "keep") EXCEPT
                              !.use_fixed_fps = (env.mode_set = "fixed")],
                          env.now)]_vars

\* after a pose that declared 0 fps the operator has set the button to the
\* measured mode, and the pose that followed 11 seconds later was updated
\* with the time step of the fixed mode
C18_ModeSetIgnored ==
    /\ ~ui.kalman_mode_btn
    /\ kf.use_fixed_fps
    /\ env.mode_set = "none"
    /\ Len(dec.emitted) = 2
    /\ kf.last_update_time = TickSeconds
    /\ kf.A_dt = kf.default_dt

\* the delay estimate or the fps difference of the pose just handled is
\* beyond its threshold
PoorConnection(u) ==
    \/ u.current_delay_ms > AUTO_SWITCH_THRESHOLD_MS * Scale
    \/ Abs(u.measured_fps - u.push_fps) > FPS_DIFF_THRESHOLD * Scale

\* C19: with the automatic arbitration switched on, the estimator is in the
\* fixed (declared) mode after every pose handled with a delay estimate
\* above 100 ms or an fps difference above 5.0
C19_PoorConnectionForcesFixed ==
    [][ModePoseStep /\ ui'.auto_switch_check /\ PoorConnection(ui')
          => kf'.use_fixed_fps]_vars

\* the arbitration is on and the measured fps is positive; a pose that
\* declared 0 fps was handled with a delay estimate above 100 ms, the
\* arbiter has checked the mode button, and the estimator is in measured mode
C19_ArbiterSwitchIgnored ==
    /\ ui.auto_switch_check
    /\ ui.measured_fps > 0
    /\ ui.current_delay_ms > AUTO_SWITCH_THRESHOLD_MS * Scale
    /\ "auto_to_fixed" \in ui.log
    /\ ui.kalman_mode_btn
    /\ ~kf.use_fixed_fps

\* C20: a call of update() with a measurement that has not 6 values
\* leaves the estimator as it was: x, P, R, the time step of A and the
\* timestamp anchor
C20_WrongLengthIgnored ==
    [][PoseStep /\ Len(env'.measurement) # 6 => kf' = kf]_vars

\* update() was called with 6 values at time 0 and with 7 values 11 seconds
\* later: the anchor is still 0
C20_AnchorKept ==
    /\ env.n_pose = 2
    /\ Len(env.measurement) = 7
    /\ kf.last_update_time = 0
    /\ env.now = TickSeconds
    /\ kf.x # Zero(COORD_DIMENSION)

\* the arguments of set_fps: a negative, a zero and two positive rates, and
\* the mode argument absent ("keep") or present
SetFpsRates == { -Scale, 0, 10 * Scale, INITIAL_FPS * Scale }
SetFpsModes == { "keep", "fixed", "measured" }

\* the step changes the mode button, so _toggle_kalman_mode has called
\* set_fps(push_fps, checked)
ModeButtonStep == ui'.kalman_mode_btn # ui.kalman_mode_btn

\* C21: set_fps(fps, mode) with fps <= 0 leaves the estimator as it was,
\* mode included; with fps > 0 it sets the current fps to fps, the default
\* dt to 1/fps and, when a mode is given, the mode, and nothing else.  This
\* holds for every estimator state reached and every argument, and for the
\* call made by every change of the mode button
C21_SetFpsRejectsNonPositive ==
    /\ [](\A fps \in SetFpsRates, m \in SetFpsModes :
            KfSetFps(kf, fps, m) =
               IF fps <= 0 THEN kf
               ELSE [kf EXCEPT !.current_fps = fps,
                               !.default_dt = Div(Scale, fps),
                               !.use_fixed_fps = IF m = "keep" THEN @
                                                 ELSE m = "fixed"])
    /\ [][ModeButtonStep =>
            IF ui'.push_fps <= 0
            THEN /\ kf'.use_fixed_fps = kf.use_fixed_fps
                 /\ kf'.default_dt = kf.default_dt
                 /\ kf'.current_fps = kf.current_fps
            ELSE /\ kf'.use_fixed_fps = ui'.kalman_mode_btn
                 /\ kf'.default_dt = Div(Scale, ui'.push_fps)
                 /\ kf'.current_fps = ui'.push_fps]_vars

\* the estimator was put in measured mode at 10 fps, a pose then declared
\* 0 fps, and the operator has set the button back to the fixed mode:
\* set_fps(0, fixed) was called and the estimator is as it was
C21_FixedModeRejected ==
    /\ env.mode_set = "fixed"
    /\ "mode_switched" \in ui.log
    /\ ui.kalman_mode_btn
    /\ ui.push_fps = 0
    /\ ~kf.use_fixed_fps
    /\ kf.current_fps = 10 * Scale

\* r is an integer nearest to sum / n
Nearest(r, sum, n) == 2 * Abs(n * r - sum) <= n

\* C22: get_accumulated_frame(count) returns the most recent frame when
\* count <= 1 (a zero grid when the ring is empty), and for count >= 2 on
\* a ring that is not empty the element-wise mean of the min(count, length)
\* most recent frames, each element an integer nearest to the mean
C22_AccumulatedIsRoundedMean ==
    env.accumulated # NoFrame =>
       IF env.accumulate_count <= 1
       THEN env.accumulated = IF fb.buffer = <<>> THEN ZeroGrid
                              ELSE fb.buffer[Len(fb.buffer)]
       ELSE fb.buffer # <<>> =>
               LET recent == Recent(fb, env.accumulate_count)
               IN  \A i \in 1..FramePixels :
                      Nearest(env.accumulated[i], PixelSum(recent, i), Len(recent))

\* the ring holds <<1, 2>>, <<1, 2>>, <<0, 255>>; count 3 has returned 0
\* for the first pixel, whose mean is 2/3
C22_MeanTruncated ==
    /\ fb.buffer = << <<1, 2>>, <<1, 2>>, <<0, 255>> >>
    /\ env.accumulate_count = 3
    /\ env.accumulated = <<0, 86>>

\* the handler that has just run is a menu reset, which calls reset()
ResetDone == "defaults_restored" \in ui.log \/ "restarted" \in ui.log

\* C23: from every estimator state, reset() applied twice gives the state
\* reset() applied once gives: zero state, initial covariance, no timestamp
\* anchor, base measurement noise, the fixed mode and the fps unchanged;
\* and a further reset() changes nothing in the state a menu reset has left
C23_ResetIdempotent ==
    /\ KfReset(KfReset(kf)) = KfReset(kf)
    /\ KfReset(kf) = [kf EXCEPT !.x = Zero(COORD_DIMENSION),
                                !.P = <<P_INIT * Scale, 0, 0, P_INIT * Scale>>,
                                !.last_update_time = NoTime,
                                !.R = KfRBase,
                                !.use_fixed_fps = TRUE]
    /\ ResetDone => KfReset(kf) = kf

\* two menu resets with no pose between them, after a pose that declared
\* 10 fps had been handled: the estimator is in the reset state, with the
\* fps and the time step of A the update left
C23_ResetTwiceInARow ==
    /\ ResetDone
    /\ Len(env.resets) = 2
    /\ env.resets[1] = 1
    /\ env.resets[2] = 1
    /\ kf.x = Zero(COORD_DIMENSION)
    /\ kf.last_update_time = NoTime
    /\ kf.current_fps = 10 * Scale
    /\ kf.A_dt # 0

\* one of the transitions of the session controller: start, first pose, and
\* stop, auto-stop or failure of the persistence initialisation
SessionTransition ==
    \/ Idle /\ AwaitingFirstPose'
    \/ AwaitingFirstPose /\ Active' /\ PoseStep
    \/ ~Idle /\ Idle'

\* C25: while recording exactly one of "waiting for the first pose" and
\* "session started" is true, so the controller is in exactly one of Idle,
\* AwaitingFirstPose and Active; and every step that changes the recording
\* flag or either of the two flags while recording is a start (Idle to
\* AwaitingFirstPose), a first pose (AwaitingFirstPose to Active) or an end
\* (to Idle), whatever the operator does, restore defaults and restart
\* included
C25_ExactlyOneState ==
    /\ [](ui.is_recording =>
             (ui.waiting_for_first_coordinate # ui.session_started))
    /\ [][(\/ ui'.is_recording # ui.is_recording
           \/ ui'.is_recording
              /\ (\/ ui'.waiting_for_first_coordinate # ui.waiting_for_first_coordinate
                  \/ ui'.session_started # ui.session_started))
          => SessionTransition]_vars

\* restore defaults was chosen while the controller was waiting for the
\* first pose: the controller is still recording, with neither flag set
C25_RecordingWithNeitherFlag ==
    /\ "defaults_restored" \in ui.log
    /\ ui.is_recording
    /\ ui.record_btn
    /\ ~ui.waiting_for_first_coordinate
    /\ ~ui.session_started
    /\ env.resets = <<0>>

\* the step is a call of update() with a measurement of 6 values
AcceptedUpdate == PoseStep /\ Len(env'.measurement) = 6

\* the rounding of one update in the fixed-point arithmetic: K has the
\* resolution 1/Scale, so K[i, i] P_prior[i, i+6] and K[i+6, i] P_prior[i, i],
\* equal in exact arithmetic, each carry an error of at most the factor of
\* K divided by Scale, plus one unit for the product
RoundingOf(Pp) == (Abs(Pp[1]) + Abs(Pp[2])) \div Scale + 2

Decision(u) ==
    IF ~u.auto_switch_check \/ u.measured_fps <= 0 THEN "none"
    ELSE IF PoorConnection(u) THEN "fixed" ELSE "measured"

\* the handler has written a side effect of a mode switch: the log entry of
\* the arbiter, or the log entry and the settings write of _toggle_kalman_mode
SwitchEffect(u) ==
    \/ "auto_to_fixed" \in u.log
    \/ "auto_to_measured" \in u.log
    \/ "mode_switched" \in u.log

\* C26: a pose for which the arbiter decides the mode the estimator is
\* already in leaves the mode and the mode button as they were and writes
\* no side effect of a mode switch; and a pose writes such a side effect
\* only when its handling changes the mode of the estimator
C26_SwitchEffectOncePerChange ==
    [][ModePoseStep =>
          /\ Decision(ui') = (IF kf.use_fixed_fps THEN "fixed" ELSE "measured")
                => /\ kf'.use_fixed_fps = kf.use_fixed_fps
                   /\ ui'.kalman_mode_btn = ui.kalman_mode_btn
                   /\ ~SwitchEffect(ui')
          /\ SwitchEffect(ui') => kf'.use_fixed_fps # kf.use_fixed_fps]_vars

\* a pose that declared 0 fps was handled with the arbitration on and a
\* good connection while the estimator was in the fixed mode: the arbiter
\* has unchecked the mode button and both log entries of a switch to the
\* measured mode are written, and the estimator is still in the fixed mode
C26_SwitchLoggedWithoutChange ==
    /\ "auto_to_measured" \in ui.log
    /\ "mode_switched" \in ui.log
    /\ ui.push_fps = 0
    /\ ~ui.kalman_mode_btn
    /\ kf.use_fixed_fps

\* C27: with the arbitration on, a pose handled with a delay of at most
\* 100 ms and an fps difference of at most 5.0 writes no switch to the
\* fixed (declared) mode and leaves an estimator in the measured mode in
\* the measured mode: the thresholds themselves do not trigger
C27_ThresholdsExclusive ==
    [][(/\ PoseStep
        /\ ui'.auto_switch_check
        /\ ui'.current_delay_ms <= AUTO_SWITCH_THRESHOLD_MS * Scale
        /\ Abs(ui'.measured_fps - ui'.push_fps) <= FPS_DIFF_THRESHOLD * Scale)
          => /\ "auto_to_fixed" \notin ui'.log
             /\ ~kf.use_fixed_fps => ~kf'.use_fixed_fps]_vars

\* a pose that declared 10 fps was handled with a delay of exactly 100 ms
\* and a measured fps of 15, a difference of exactly 5.0: the arbiter has
\* put the estimator in the measured mode
C27_AtBothThresholds ==
    /\ ui.auto_switch_check
    /\ ui.current_delay_ms = AUTO_SWITCH_THRESHOLD_MS * Scale
    /\ ui.measured_fps = 15 * Scale
    /\ ui.push_fps = 10 * Scale
    /\ "auto_to_measured" \in ui.log
    /\ ~kf.use_fixed_fps

\* 1 / declared fps of the pose just handled
DeclaredDt(u) == Div(Scale, u.push_fps)

FreshFlag(e) == e.calls[Len(e.calls)][2]

\* C29: the measurement noise of an accepted update is 100 R_base when the
\* is_coord_updated flag of that call is false and R_base when it is true,
\* whatever the flags of the earlier calls were, and it is the noise the
\* gain of that update was computed with
C29_NoiseOfThisUpdateOnly ==
    [][AcceptedUpdate =>
          LET R  == IF FreshFlag(env') THEN KfRBase ELSE KfRBase * STALE_R_FACTOR
              Pp == KfPPrior(kf.P, kf'.A_dt)
          IN  /\ kf'.R = R
              /\ kf'.P[1] = Pp[1] - Mul(Div(Pp[1], Pp[1] + R), Pp[1])]_vars

\* an accepted stale update was followed by an accepted fresh update: the
\* noise is R_base again
C29_FreshAfterStale ==
    /\ env.calls = << <<6, FALSE>>, <<6, TRUE>> >>
    /\ kf.R = KfRBase
    /\ kf.last_update_time # NoTime

\* a pose was received before this one, and no menu reset came between
HasPredecessor ==
    /\ env.n_pose > 0
    /\ env.resets # <<>> => env.resets[Len(env.resets)] < env.n_pose

\* the pose just handled was passed to the estimator as stale: the update
\* has inflated the measurement noise
PassedAsStale == kf'.R = KfRBase * STALE_R_FACTOR

\* C30: a pose is passed to the estimator as stale exactly when it has a
\* predecessor (a pose received before it, and since the last reset by the
\* operator) and its six components equal those of the predecessor; the
\* first pose ever and the first pose after a reset are passed as fresh
C30_StaleIffRepeatsPredecessor ==
    [][PoseStep =>
          (PassedAsStale <=>
              /\ HasPredecessor
              /\ ui'.last_received_coord = ui.last_received_coord)]_vars

\* the first pose of the run, all six components zero, was passed as stale
C30_FirstPoseStale ==
    /\ env.n_pose = 1
    /\ env.resets = <<>>
    /\ ui.last_received_coord = Zero(6)
    /\ ui.coord_repeat_count = 1
    /\ kf.R = KfRBase * STALE_R_FACTOR
    /\ kf.last_update_time # NoTime

\* the handler that has just run has stopped the recording
StopStep == ui.is_recording /\ ~ui'.is_recording

\* the positions of the disk writes of one kind
Writes(disk, kind) == { i \in 1..Len(disk) : disk[i][1] = kind }

\* r is the element-wise mean of the frames, each element an integer
\* within one of the mean
IsMean(r, frames) ==
    /\ Len(r) = Len(frames[1])
    /\ \A i \in 1..Len(r) :
          Abs(Len(frames) * r[i] - PixelSum(frames, i)) < Len(frames)

\* C31: a stop in calibration mode with at least one captured frame writes
\* the calibration file, the mean of all captured frames of the session,
\* before the persistence session is closed; a stop outside calibration
\* mode (or with no captured frame) writes no calibration file
C31_CalibrationFileOnStop ==
    [][StopStep =>
          IF ui'.is_calibration_mode /\ ui'.recorded_frames # <<>>
          THEN /\ \E i \in Writes(env'.disk, "calibration") :
                     \A j \in Writes(env'.disk, "end") : i < j
               /\ IsMean(env'.calibration_file, ui'.recorded_frames)
          ELSE Writes(env'.disk, "calibration") = {}]_vars

\* a session of two frames was stopped in calibration mode with automatic
\* saving off: no calibration file was written
C31_NoFileWithoutSaver ==
    /\ ~ui.is_recording
    /\ ui.is_calibration_mode
    /\ ~ui.auto_save_check
    /\ Len(ui.recorded_frames) = 2
    /\ env.disk = <<>>
    /\ env.calibration_file = NoFrame

\* the call that has just run
Called(op) == env'.op = op /\ (op = "add_frame" => env'.n_add = env.n_add + 1)

\* C32: the ring never holds more than MAX_RECORDED_FRAMES frames; add_frame
\* on a full ring drops the oldest frame, keeps the order of the others
\* and puts the new frame last (on a ring that is not full it appends);
\* add_frame leaves the reference snapshot alone, set_reference leaves the
\* ring alone, and clear empties both
C32_RingBounded ==
    /\ [](Len(fb.buffer) <= MAX_RECORDED_FRAMES)
    /\ [][/\ Called("add_frame") =>
               /\ fb'.reference_frame = fb.reference_frame
               /\ fb'.buffer[Len(fb'.buffer)] = env'.frame
               /\ IF Len(fb.buffer) = MAX_RECORDED_FRAMES
                  THEN /\ Len(fb'.buffer) = MAX_RECORDED_FRAMES
                       /\ \A i \in 1..(MAX_RECORDED_FRAMES - 1) :
                             fb'.buffer[i] = fb.buffer[i + 1]
                  ELSE /\ Len(fb'.buffer) = Len(fb.buffer) + 1
                       /\ \A i \in 1..Len(fb.buffer) : fb'.buffer[i] = fb.buffer[i]
          /\ Called("set_reference") =>
               /\ fb'.buffer = fb.buffer
               /\ fb'.reference_frame = env'.frame
          /\ Called("clear") =>
               /\ fb'.buffer = <<>>
               /\ fb'.reference_frame = NoFrame]_vars

\* the 100th frame was added to the full ring that holds a reference
\* snapshot: the first frame has left the ring
C32_OldestEvicted ==
    /\ env.op = "add_frame"
    /\ env.n_add = MAX_RECORDED_FRAMES + 1
    /\ Len(fb.buffer) = MAX_RECORDED_FRAMES
    /\ fb.buffer[1] = NthFrame(2)
    /\ fb.buffer[MAX_RECORDED_FRAMES] = NthFrame(MAX_RECORDED_FRAMES + 1)
    /\ fb.reference_frame = <<255, 0>>

\* the handler that has just run took the controller from a recording
\* state to Idle
LeftRecording == (AwaitingFirstPose \/ Active) /\ Idle'

\* the handler that has just run wrote STOP to the peer
StopSent ==
    /\ Len(tcp'.peer_out) = Len(tcp.peer_out) + 1
    /\ tcp'.peer_out[Len(tcp'.peer_out)] = "STOP"

\* C33: whenever the controller leaves a recording state for Idle while a
\* peer is connected, STOP is written to the peer
C33_StopSentOnLeaving ==
    [][LeftRecording /\ tcp.client_socket # NoPeer => StopSent]_vars

\* the session folder could not be created: the controller is back in
\* Idle and the connected peer has been sent START only
C33_AbortedWithoutStop ==
    /\ Idle
    /\ "saver_init_failed" \in ui.log
    /\ tcp.client_socket # NoPeer
    /\ tcp.peer_out = <<"START">>

\* C34: in every reachable state the mode button (checked: the declared
\* time base, unchecked: the measured one) shows the mode of the estimator
C34_ButtonIsEstimatorMode == ui.kalman_mode_btn = kf.use_fixed_fps

\* the operator has clicked the mode button after a pose that declared
\* 0 fps: the button shows the measured mode, the estimator is in the
\* fixed mode
C34_ButtonMeasuredEstimatorFixed ==
    /\ env.mode_set = "measured"
    /\ ~ui.kalman_mode_btn
    /\ ~ui.auto_switch_check
    /\ kf.use_fixed_fps
    /\ ui.push_fps = 0

\* the handler that has just run wrote START to the peer
StartSent ==
    /\ Len(tcp'.peer_out) > 0
    /\ tcp'.peer_out[Len(tcp'.peer_out)] = "START"
    /\ tcp'.peer_out # tcp.peer_out

\* the handler that has just run is the operator's start of a recording
OperatorStart == ~ui.record_btn /\ ui'.record_btn

\* the handler that has just run is the resend armed when a peer was
\* accepted while recording
ResentAfterAccept == "resent_start" \in ui'.log /\ env'.fired = "accepted"

\* C35: START is written to the peer only by the operator's start of a
\* recording and by the resend armed when a new peer was accepted while
\* recording; no START follows from a change of the heartbeat status
C35_StartOnlyOnStartOrAccept ==
    [][StartSent => OperatorStart \/ ResentAfterAccept]_vars

\* START was written a second time to the peer of a recording, by the
\* resend the change of the heartbeat status to standby had armed
C35_StartAfterHeartbeat ==
    /\ "resent_start" \in ui.log
    /\ env.fired = "heartbeat"
    /\ tcp.heartbeat_status = "standby"
    /\ tcp.accepted = 1
    /\ tcp.peer_out = <<"START", "START">>

\* the handler that has just run is a click on the record button of the
\* idle controller that has left it idle: start_recording has returned
\* early (no storage path, or the directory could not be created)
RejectedStart ==
    /\ Idle /\ ~ui.record_btn
    /\ Idle'
    /\ ~PoseStep

\* C36: a rejected start leaves the controller Idle and changes nothing
\* else: nothing is written to the peer, the fps timer does not run, and
\* the pose and fps series of the previous session are as they were
C36_RejectedStartHasNoEffect ==
    [][RejectedStart =>
          /\ tcp'.peer_out = tcp.peer_out
          /\ ~ui'.fps_timer
          /\ pc' = pc]_vars

\* a session of one frame and one pose has ended; the next start was
\* rejected, yet START was written, the fps timer runs and the pose series
\* of the session is empty
C36_RejectedStartSentStart ==
    /\ Idle /\ ~ui.record_btn
    /\ Len(ui.recorded_frames) = 1
    /\ pc.coords = <<>>
    /\ ui.fps_timer
    /\ tcp.peer_out = <<"START", "STOP", "START">>

\* the handler that has just run has started a recording
StartStep == Idle /\ ~Idle'

\* C37: a session holds only data received after its start.  start()
\* leaves the frame, pose and fps series, the accumulator and the pending
\* first frame empty; from then on a series is emptied or grows by the
\* frame or the pose of the handler that runs (the pending first frame,
\* received after the start, when the first pose opens the session), so a
\* recording holds no more frames than were delivered since its start, the
\* first of them first
C37_SessionHoldsOwnData ==
    /\ [][StartStep =>
             /\ ui'.recorded_frames = <<>>
             /\ pc'.coords = <<>> /\ pc'.fps_values = <<>>
             /\ fb'.buffer = <<>> /\ fb'.reference_frame = NoFrame
             /\ ui'.first_frame_data = NoFrame]_vars
    /\ [][~StartStep /\ ui'.recorded_frames # ui.recorded_frames =>
             /\ ui'.recorded_frames = Append(ui.recorded_frames, ui'.current_frame)
             /\ PoseStep => ui'.current_frame = ui.first_frame_data]_vars
    /\ [][~StartStep /\ pc' # pc =>
             \/ pc'.coords = <<>> /\ pc'.fps_values = <<>>
             \/ /\ PoseStep
                /\ pc'.coords = Append(pc.coords, ui'.current_coordinate)
                /\ pc'.fps_values = Append(pc.fps_values, ui'.push_fps)]_vars
    /\ [](~Idle =>
             /\ Len(ui.recorded_frames) <= env.n_rx
             /\ Len(fb.buffer) <= env.n_rx
             /\ ui.first_frame_data \in {NoFrame, env.first_rx}
             /\ fb.reference_frame \in {NoFrame, env.first_rx}
             /\ ui.recorded_frames # <<>> => ui.recorded_frames[1] = env.first_rx)

\* the second recording of the run, started after a first one that was
\* delivered the frame <<0, 255>> and a pose, holds the one frame and the
\* one pose delivered since its start
C37_SecondSessionOwnData ==
    /\ Active
    /\ tcp.peer_out = <<"START", "STOP", "START">>
    /\ env.n_pose = 2
    /\ env.n_rx = 1
    /\ ui.recorded_frames = << <<255, 0>> >>
    /\ Len(pc.coords) = 1
    /\ ui.is_calibration_mode
    /\ env.calibration_file = <<0, 255>>

\* C38: in every Active session that holds a frame, the reference
\* snapshot of the accumulator is the first frame of the session
C38_ReferenceIsFirstFrame ==
    Active /\ ui.recorded_frames # <<>> =>
        fb.reference_frame = ui.recorded_frames[1]

\* the first pose arrived before the first frame: the session holds the
\* frame and the accumulator has no reference snapshot
C38_NoReferenceWhenPoseFirst ==
    /\ Active
    /\ env.n_rx = 1
    /\ ui.recorded_frames = <<env.first_rx>>
    /\ fb.buffer = ui.recorded_frames
    /\ fb.reference_frame = NoFrame

====
